---------------------------- MODULE Spec2Model ----------------------------
(***************************************************************************)
(* Constraint evaluation and violation windowing of rust-ephem.            *)
(*                                                                         *)
(* The model covers the result type of src/src/constraints.rs (violation   *)
(* windows kept as RFC 3339 text, with the derived queries                 *)
(* total_violation_duration, constraint_array and in_constraint), the      *)
(* proximity evaluators of that file, and the ephemeris based evaluators   *)
(* of src/src/constraints/ (Eclipse, OrbitPole, SAA, AltAz) with their     *)
(* evaluate and in_constraint_batch paths.                                 *)
(*                                                                         *)
(* Instants are integers: microseconds since 2024-01-01T00:00:00 UTC,      *)
(* all inside the first half hour of that day. Text is a sequence of       *)
(* ASCII codes, so that the byte-wise string comparisons of the code are   *)
(* computed, not assumed.                                                  *)
(* Angles are whole degrees; severities are exact fractions <<num, den>>   *)
(* in lowest terms.                                                        *)
(***************************************************************************)
EXTENDS Integers, Sequences, FiniteSets, TLC

(***************************************************************************)
(* Bounds of the model.                                                    *)
(***************************************************************************)
\* longest ephemeris (number of generated timestamps) explored exhaustively
MaxN == 3

\* Option<T>: None is the empty tuple, Some(v) the one-element tuple
None == <<>>
Some(v) == <<v>>
IsSome(o) == o # <<>>
Unwrap(o) == o[1]

Min2(a, b) == IF a <= b THEN a ELSE b
Max2(a, b) == IF a >= b THEN a ELSE b
Abs(a) == IF a < 0 THEN -a ELSE a

RECURSIVE Gcd(_, _)
Gcd(a, b) == IF b = 0 THEN a ELSE Gcd(b, a % b)

(***************************************************************************)
(* f64 values that are ratios of whole numbers: <<num, den>>, den > 0,     *)
(* lowest terms, so that equal values are equal tuples.                    *)
(***************************************************************************)
Rat(n, d) ==
    LET g == Gcd(Abs(n), Abs(d))
        s == IF d < 0 THEN -1 ELSE 1
    IN  IF n = 0 THEN <<0, 1>> ELSE <<(s * n) \div g, (s * d) \div g>>

RatLeq(a, b) == a[1] * b[2] <= b[1] * a[2]

\* f64::max
\* a running maximum that keeps the severity the window opened with
RatKeep(a, b) == a

RatMax(a, b) == IF RatLeq(b, a) THEN a ELSE b

RatZero == <<0, 1>>
RatOne == <<1, 1>>

(***************************************************************************)
(* Text.                                                                   *)
(***************************************************************************)
\* ASCII code of a decimal digit
Digit(d) == 48 + d

\* "2024-01-01T"
DatePrefix == <<50, 48, 50, 52, 45, 48, 49, 45, 48, 49, 84>>
\* "+00:00"
UtcOffset == <<43, 48, 48, 58, 48, 48>>
\* ":" and "." and "Z"
Colon == <<58>>
Dot == <<46>>
Zulu == <<90>>

TwoDigits(n) == <<Digit((n \div 10) % 10), Digit(n % 10)>>
ThreeDigits(n) == <<Digit((n \div 100) % 10)>> \o TwoDigits(n)
SixDigits(n) == ThreeDigits(n \div 1000) \o ThreeDigits(n % 1000)

MicrosPerSecond == 1000 * 1000

\* "HH:MM:SS" of an instant
ClockText(t) ==
    LET sec == t \div MicrosPerSecond
    IN  TwoDigits((sec \div 3600) % 24) \o Colon \o
        TwoDigits((sec \div 60) % 60) \o Colon \o
        TwoDigits(sec % 60)

\* chrono DateTime<Utc>::to_rfc3339: SecondsFormat::AutoSi prints no
\* fraction, 3 digits or 6 digits, whichever shows every non-zero digit;
\* the offset of Utc is printed as +00:00.
to_rfc3339(t) ==
    LET us == t % MicrosPerSecond
        frac == IF us = 0 THEN <<>>
                ELSE IF us % 1000 = 0 THEN Dot \o ThreeDigits(us \div 1000)
                ELSE Dot \o SixDigits(us)
    IN  DatePrefix \o ClockText(t) \o frac \o UtcOffset

\* Python datetime.isoformat(): 6 fraction digits whenever microsecond is
\* not 0, and the offset only when the datetime carries a tzinfo (UTC here).
isoformat(dt) ==
    LET us == dt.us % MicrosPerSecond
        frac == IF us = 0 THEN <<>> ELSE Dot \o SixDigits(us)
    IN  DatePrefix \o ClockText(dt.us) \o frac \o
        (IF dt.aware THEN UtcOffset ELSE <<>>)

\* byte-wise lexicographic order of Rust's String
StrLt(a, b) ==
    \E i \in 1..(Min2(Len(a), Len(b)) + 1) :
        /\ \A j \in 1..(i - 1) : a[j] = b[j]
        /\ \/ i > Len(a) /\ i <= Len(b)
           \/ i <= Len(a) /\ i <= Len(b) /\ a[i] < b[i]

\* a comparison that leaves equal texts out
StrLeqStrict(a, b) == StrLt(a, b)

StrLeq(a, b) == a = b \/ StrLt(a, b)

DigitVal(c) == c - 48

RECURSIVE DigitsVal(_)
DigitsVal(s) ==
    IF s = <<>> THEN 0
    ELSE 10 * DigitsVal(SubSeq(s, 1, Len(s) - 1)) + DigitVal(s[Len(s)])

RECURSIVE Pow10(_)
Pow10(k) == IF k = 0 THEN 1 ELSE 10 * Pow10(k - 1)

\* number of leading decimal digits of s from position p on
RECURSIVE DigitRun(_, _)
DigitRun(s, p) ==
    IF p <= Len(s) /\ s[p] >= 48 /\ s[p] <= 57 THEN 1 + DigitRun(s, p + 1) ELSE 0

\* chrono DateTime::parse_from_rfc3339(..).with_timezone(&Utc) on the text
\* of an instant of the modelled day: the clock fields, an optional fraction
\* of any length up to 6 digits, then Z or +00:00. Anything else is an Err,
\* written ParseErr.
ParseErr == 0 - 1

parse_from_rfc3339(s) ==
    IF Len(s) < 20 \/ SubSeq(s, 1, 11) # DatePrefix THEN ParseErr
    ELSE
        LET hh == DigitsVal(SubSeq(s, 12, 13))
            mm == DigitsVal(SubSeq(s, 15, 16))
            ss == DigitsVal(SubSeq(s, 18, 19))
            k == IF <<s[20]>> = Dot THEN DigitRun(s, 21) ELSE 0
            fracEnd == IF k = 0 THEN 19 ELSE 20 + k
            us == IF k = 0 THEN 0
                  ELSE DigitsVal(SubSeq(s, 21, 20 + k)) * Pow10(6 - k)
            tail == SubSeq(s, fracEnd + 1, Len(s))
        IN  IF /\ <<s[14]>> = Colon /\ <<s[17]>> = Colon
               /\ (<<s[20]>> = Dot => k \in 1..6)
               /\ tail \in {UtcOffset, Zulu}
            THEN ((hh * 60 + mm) * 60 + ss) * MicrosPerSecond + us
            ELSE ParseErr

(***************************************************************************)
(* The ephemeris.                                                          *)
(***************************************************************************)
\* utils::config::MAX_TIMESTAMPS
MAX_TIMESTAMPS == 12

\* i64 and the range of DateTime<Utc>, scaled to the integers of the model
\* checker: i64 is taken 31 bits wide, and the last instant a DateTime<Utc>
\* holds is 2147 seconds after the first instant of the model. As in Rust,
\* the range of dates lies below the range of Duration::seconds, which lies
\* below i64::MAX.
I64_MAX == 1024 * 1024 * 1024 - 1
MAX_UTC == 2147 * MicrosPerSecond

\* a + b of i64 without overflow checks: wraps around
WrappingAdd(a, b) ==
    IF a + b > I64_MAX THEN ((a + b) - I64_MAX) - I64_MAX - 2 ELSE a + b

\* a / b of i64 for b > 0: rounds towards zero
TruncDiv(a, b) == IF a >= 0 THEN a \div b ELSE 0 - ((0 - a) \div b)

\* the while loop of generate_timestamps; current += step_duration panics
\* when the sum is past the last instant of DateTime<Utc>
RECURSIVE TimestampLoop(_, _, _, _)
TimestampLoop(current, end_dt, step_size, times) ==
    IF current <= end_dt
    THEN IF step_size > (MAX_UTC - current) \div MicrosPerSecond
         THEN [panic |-> TRUE, times |-> <<>>]
         ELSE TimestampLoop(current + step_size * MicrosPerSecond, end_dt,
                            step_size, Append(times, current))
    ELSE [panic |-> FALSE, times |-> times]

\* generate_timestamps(begin, end, step_size): begin and end are instants,
\* step_size is in whole seconds. The result is Ok(times), an Err (ok and
\* panic both false) or a panic. Where time_range_secs + step_size is past
\* i64::MAX a build with overflow checks panics at the addition; a build
\* without them goes on with the wrapped sum and panics in
\* Vec::with_capacity (negative count as usize) or in Duration::seconds
\* (more than i64::MAX / 1000 seconds), so the outcome is a panic in both.
generate_timestamps(begin_dt, end_dt, step_size) ==
    IF begin_dt > end_dt THEN [ok |-> FALSE, panic |-> FALSE, times |-> <<>>]
    ELSE IF step_size <= 0 THEN [ok |-> FALSE, panic |-> FALSE, times |-> <<>>]
    ELSE
        LET time_range_secs == (end_dt - begin_dt) \div MicrosPerSecond
            expected_count ==
                TruncDiv(WrappingAdd(time_range_secs, step_size), step_size)
        IN  IF expected_count > MAX_TIMESTAMPS
            THEN [ok |-> FALSE, panic |-> FALSE, times |-> <<>>]
            ELSE IF expected_count < 0
            THEN [ok |-> FALSE, panic |-> TRUE, times |-> <<>>]
            ELSE IF step_size > I64_MAX \div 1000
            THEN [ok |-> FALSE, panic |-> TRUE, times |-> <<>>]
            ELSE LET loop == TimestampLoop(begin_dt, end_dt, step_size, <<>>)
                 IN  [ok |-> ~loop.panic, panic |-> loop.panic,
                      times |-> loop.times]

(***************************************************************************)
(* One row of the ephemeris arrays, index-aligned with the timestamps.     *)
(*   sun, moon : right ascension (degrees) of the direction from the       *)
(*               observer to the body; the body, the observer and every    *)
(*               target of a proximity evaluation lie in the equatorial    *)
(*               plane (declination 0)                                     *)
(*   shadow    : what shadow_geometry returns for the row's observer and   *)
(*               Sun positions: None, or Some of the triple                *)
(*               <<dist_to_axis, umbra_radius, penumbra_radius>>           *)
(*   pos, vel  : GCRS position and velocity of the observer (axis-aligned) *)
(*   lat, lon  : geodetic sub-point in degrees                             *)
(*   illum     : illuminated fraction of the Moon, in hundredths           *)
(*   moon_alt  : altitude of the Moon above the observer's horizon in      *)
(*               tenths of a degree, as the refraction routine computes it *)
(*               from the row's time, Moon position and observer state     *)
(***************************************************************************)
DefaultRow ==
    [sun |-> 90, moon |-> 90, shadow |-> None,
     pos |-> <<7, 0, 0>>, vel |-> <<0, 7, 0>>, lat |-> 50, lon |-> 50,
     illum |-> 50, moon_alt |-> 300]

\* rows for the proximity evaluators: the Sun (or body) and the Moon at
\* 10, 15, 20, 90 and 170 degrees from the target at right ascension 0
ProximityRows ==
    {[DefaultRow EXCEPT !.sun = a[1], !.moon = a[2]] :
        a \in {<<10, 170>>, <<15, 90>>, <<20, 10>>, <<90, 15>>, <<170, 20>>}}

NearSunRow == [DefaultRow EXCEPT !.sun = 10]

\* deep in the umbra, orbital pole along the x axis, sub-point (5, 5)
ShadowedRow ==
    [DefaultRow EXCEPT !.shadow = Some(<<0, 5, 8>>), !.pos = <<0, 7, 0>>,
                       !.vel = <<0, 0, 7>>, !.lat = 5, !.lon = 5]

\* in the penumbra only, sub-point (5, 5)
PenumbraRow ==
    [DefaultRow EXCEPT !.shadow = Some(<<6, 5, 8>>), !.lat = 5, !.lon = 5]

RowSeqs(R, n) == [1..n -> R]

\* instants the ephemeris may begin at: a whole second, and an instant with
\* a millisecond fraction just before a minute boundary
FractionalBegin == 59500 * 1000
Begins == {0, FractionalBegin}

\* the end-to-end scenario of the specification: ten one-minute samples
\* whose separations from the target at right ascension 0 are
\* 10,10,25,25,25,10,10,10,25,25 degrees
ScenarioAngles == <<10, 10, 25, 25, 25, 10, 10, 10, 25, 25>>

ScenarioEphemeris ==
    [times |-> generate_timestamps(0, 9 * 60 * MicrosPerSecond, 60).times,
     rows |-> [i \in 1..10 |-> [DefaultRow EXCEPT !.sun = ScenarioAngles[i]]],
     gcrs_cols |-> 6, has_latlon |-> [lat |-> TRUE, lon |-> TRUE]]

\* the tracker scenario of the specification: ten one-second samples that
\* break the rule at the indices 2, 3, 4, 6 and 9 (the Sun 15 or 10 degrees
\* from the target, the observer in the umbra), severities differing
\* within the first window
TrackerAngles == <<90, 90, 15, 10, 15, 90, 10, 90, 90, 15>>

TrackerEphemeris ==
    [times |-> generate_timestamps(0, 9 * MicrosPerSecond, 1).times,
     rows |-> [i \in 1..10 |->
                 IF TrackerAngles[i] < 90
                 THEN [ShadowedRow EXCEPT !.sun = TrackerAngles[i]]
                 ELSE DefaultRow],
     gcrs_cols |-> 6, has_latlon |-> [lat |-> TRUE, lon |-> TRUE]]

\* one field of every row
Column(rows, f) == [k \in 1..Len(rows) |-> rows[k][f]]

\* 0-based indexing of the arrays
At(s, i) == s[i + 1]
InRange(s, i) == i >= 0 /\ i < Len(s)

(***************************************************************************)
(* ConstraintViolation and ConstraintResult of constraints.rs: the times   *)
(* are RFC 3339 text.                                                      *)
(***************************************************************************)
ConstraintViolation(start_time, end_time, max_severity, description) ==
    [start_time |-> start_time, end_time |-> end_time,
     max_severity |-> max_severity, description |-> description]

\* tag "ok": the value returned; "panic": an index out of range aborted the
\* call; "err": the call returned Err; "none": nothing was evaluated yet
ConstraintResult(violations, all_satisfied, constraint_name, times) ==
    [tag |-> "ok", violations |-> violations, all_satisfied |-> all_satisfied,
     constraint_name |-> constraint_name, times |-> times]

Panicked == [tag |-> "panic"]
NoResult == [tag |-> "none"]
Failed(msg) == [tag |-> "err", msg |-> msg]

\* a scan that starts with a window already open at index 0
ScanStartOpen ==
    [violations |-> <<>>, current_violation |-> Some(<<0, <<0, 1>>>>),
     panic |-> FALSE]

\* the scan state of an evaluate loop: the windows pushed so far, the open
\* window current_violation = Some(<<start_idx, max_sev>>), and whether an
\* index went out of range
ScanStart == [violations |-> <<>>, current_violation |-> None, panic |-> FALSE]

\* Vec<DateTime<Utc>> to Vec<String>
TimesText(times) == [k \in 1..Len(times) |-> to_rfc3339(times[k])]

\* angular separation in degrees between two directions of the equatorial
\* plane given by their right ascensions: what radec_to_unit_vector,
\* normalize_vector, dot_product, clamp, acos and to_degrees compute
AngularSeparation(ra1, ra2) ==
    LET d == Abs(ra1 - ra2) % 360
    IN  IF d > 180 THEN 360 - d ELSE d

(***************************************************************************)
(* SunProximityEvaluator                                                   *)
(***************************************************************************)
SunProximityName(cfg) ==
    IF IsSome(cfg.max_angle)
    THEN <<"SunProximity(min, max)", cfg.min_angle, Unwrap(cfg.max_angle)>>
    ELSE <<"SunProximity(min)", cfg.min_angle>>

SunViolationDescription(cfg, angle_deg) ==
    IF angle_deg < cfg.min_angle
    THEN <<"Target within (angle) of Sun (min allowed)", angle_deg, cfg.min_angle>>
    ELSE IF IsSome(cfg.max_angle)
    THEN <<"Target (angle) from Sun (max allowed)", angle_deg, Unwrap(cfg.max_angle)>>
    ELSE <<"Target too close to Sun (min allowed)", cfg.min_angle>>

SunFinalViolationDescription(cfg) ==
    IF IsSome(cfg.max_angle)
    THEN <<"Target too close to Sun (min) or too far (max)", cfg.min_angle,
           Unwrap(cfg.max_angle)>>
    ELSE <<"Target too close to Sun (min allowed)", cfg.min_angle>>

\* the per-sample test of the loop body
SunIsViolated(cfg, angle_deg) ==
    \/ angle_deg < cfg.min_angle
    \/ IsSome(cfg.max_angle) /\ angle_deg > Unwrap(cfg.max_angle)

\* the distance past the threshold, not divided by the threshold
SunSeverityUnscaled(cfg, angle_deg) ==
    IF angle_deg < cfg.min_angle
    THEN Rat(cfg.min_angle - angle_deg, 1)
    ELSE IF IsSome(cfg.max_angle)
    THEN Rat(angle_deg - Unwrap(cfg.max_angle), 1)
    ELSE RatZero

SunSeverity(cfg, angle_deg) ==
    IF angle_deg < cfg.min_angle
    THEN Rat(cfg.min_angle - angle_deg, cfg.min_angle)
    ELSE IF IsSome(cfg.max_angle)
    THEN Rat(angle_deg - Unwrap(cfg.max_angle), Unwrap(cfg.max_angle))
    ELSE RatZero

\* an iteration that closes a window at the sample that ended it
SunStepLate(st, i, cfg, times, target_ra, sun_dirs) ==
    IF ~InRange(sun_dirs, i) THEN [st EXCEPT !.panic = TRUE]
    ELSE
    LET angle_deg == AngularSeparation(target_ra, At(sun_dirs, i))
    IN  IF SunIsViolated(cfg, angle_deg)
        THEN LET severity == SunSeverity(cfg, angle_deg)
             IN  IF IsSome(st.current_violation)
                 THEN [st EXCEPT !.current_violation =
                          Some(<<Unwrap(@)[1], RatMax(Unwrap(@)[2], severity)>>)]
                 ELSE [st EXCEPT !.current_violation = Some(<<i, severity>>)]
        ELSE IF IsSome(st.current_violation)
        THEN [st EXCEPT
                !.violations = Append(@, ConstraintViolation(
                    to_rfc3339(At(times, Unwrap(st.current_violation)[1])),
                    to_rfc3339(At(times, i)),
                    Unwrap(st.current_violation)[2],
                    SunViolationDescription(cfg, angle_deg))),
                !.current_violation = None]
        ELSE st

\* one iteration of the for loop at index i
SunStep(st, i, cfg, times, target_ra, sun_dirs) ==
    IF ~InRange(sun_dirs, i) THEN [st EXCEPT !.panic = TRUE]
    ELSE
    LET angle_deg == AngularSeparation(target_ra, At(sun_dirs, i))
    IN  IF SunIsViolated(cfg, angle_deg)
        THEN LET severity == SunSeverity(cfg, angle_deg)
             IN  IF IsSome(st.current_violation)
                 THEN [st EXCEPT !.current_violation =
                          Some(<<Unwrap(@)[1], RatMax(Unwrap(@)[2], severity)>>)]
                 ELSE [st EXCEPT !.current_violation = Some(<<i, severity>>)]
        ELSE IF IsSome(st.current_violation)
        THEN LET start_idx == Unwrap(st.current_violation)[1]
                 max_severity == Unwrap(st.current_violation)[2]
             IN  IF ~InRange(times, start_idx) \/ ~InRange(times, i - 1)
                 THEN [st EXCEPT !.panic = TRUE]
                 ELSE [st EXCEPT
                         !.violations = Append(@, ConstraintViolation(
                             to_rfc3339(At(times, start_idx)),
                             to_rfc3339(At(times, i - 1)),
                             max_severity,
                             SunViolationDescription(cfg, angle_deg))),
                         !.current_violation = None]
        ELSE st

RECURSIVE SunLoop(_, _, _, _, _, _)
SunLoop(st, i, cfg, times, target_ra, sun_dirs) ==
    IF i >= Len(times) \/ st.panic THEN st
    ELSE SunLoop(SunStep(st, i, cfg, times, target_ra, sun_dirs), i + 1,
                 cfg, times, target_ra, sun_dirs)

\* an end of scan that drops the window still open
SunCloseDropping(st, cfg, times) == st

\* "Close any open violation at the end"
SunClose(st, cfg, times) ==
    IF st.panic \/ ~IsSome(st.current_violation) THEN st
    ELSE LET start_idx == Unwrap(st.current_violation)[1]
             max_severity == Unwrap(st.current_violation)[2]
         IN  IF ~InRange(times, start_idx) \/ ~InRange(times, Len(times) - 1)
             THEN [st EXCEPT !.panic = TRUE]
             ELSE [st EXCEPT
                     !.violations = Append(@, ConstraintViolation(
                         to_rfc3339(At(times, start_idx)),
                         to_rfc3339(At(times, Len(times) - 1)),
                         max_severity,
                         SunFinalViolationDescription(cfg)))]

\* SunProximityEvaluator::evaluate
SunProximityEvaluate(cfg, times, target_ra, sun_dirs) ==
    LET st == SunClose(SunLoop(ScanStart, 0, cfg, times, target_ra, sun_dirs),
                       cfg, times)
    IN  IF st.panic THEN Panicked
        ELSE ConstraintResult(st.violations, st.violations = <<>>,
                              SunProximityName(cfg), TimesText(times))

(***************************************************************************)
(* MoonProximityEvaluator                                                  *)
(***************************************************************************)
MoonProximityName(cfg) ==
    IF IsSome(cfg.max_angle)
    THEN <<"MoonProximity(min, max)", cfg.min_angle, Unwrap(cfg.max_angle)>>
    ELSE <<"MoonProximity(min)", cfg.min_angle>>

MoonViolationDescription(cfg, angle_deg) ==
    IF angle_deg < cfg.min_angle
    THEN <<"Target within (angle) of Moon (min allowed)", angle_deg, cfg.min_angle>>
    ELSE IF IsSome(cfg.max_angle)
    THEN <<"Target (angle) from Moon (max allowed)", angle_deg, Unwrap(cfg.max_angle)>>
    ELSE <<"Target too close to Moon (min allowed)", cfg.min_angle>>

MoonFinalViolationDescription(cfg) ==
    IF IsSome(cfg.max_angle)
    THEN <<"Target too close to Moon (min) or too far (max)", cfg.min_angle,
           Unwrap(cfg.max_angle)>>
    ELSE <<"Target too close to Moon (min allowed)", cfg.min_angle>>

\* the per-sample test of the loop body
MoonIsViolated(cfg, angle_deg) ==
    \/ angle_deg < cfg.min_angle
    \/ IsSome(cfg.max_angle) /\ angle_deg > Unwrap(cfg.max_angle)

MoonSeverity(cfg, angle_deg) ==
    IF angle_deg < cfg.min_angle
    THEN Rat(cfg.min_angle - angle_deg, cfg.min_angle)
    ELSE IF IsSome(cfg.max_angle)
    THEN Rat(angle_deg - Unwrap(cfg.max_angle), Unwrap(cfg.max_angle))
    ELSE RatZero

\* one iteration of the for loop at index i
MoonStep(st, i, cfg, times, target_ra, moon_dirs) ==
    IF ~InRange(moon_dirs, i) THEN [st EXCEPT !.panic = TRUE]
    ELSE
    LET angle_deg == AngularSeparation(target_ra, At(moon_dirs, i))
    IN  IF MoonIsViolated(cfg, angle_deg)
        THEN LET severity == MoonSeverity(cfg, angle_deg)
             IN  IF IsSome(st.current_violation)
                 THEN [st EXCEPT !.current_violation =
                          Some(<<Unwrap(@)[1], RatMax(Unwrap(@)[2], severity)>>)]
                 ELSE [st EXCEPT !.current_violation = Some(<<i, severity>>)]
        ELSE IF IsSome(st.current_violation)
        THEN LET start_idx == Unwrap(st.current_violation)[1]
                 max_severity == Unwrap(st.current_violation)[2]
             IN  IF ~InRange(times, start_idx) \/ ~InRange(times, i - 1)
                 THEN [st EXCEPT !.panic = TRUE]
                 ELSE [st EXCEPT
                         !.violations = Append(@, ConstraintViolation(
                             to_rfc3339(At(times, start_idx)),
                             to_rfc3339(At(times, i - 1)),
                             max_severity,
                             MoonViolationDescription(cfg, angle_deg))),
                         !.current_violation = None]
        ELSE st

RECURSIVE MoonLoop(_, _, _, _, _, _)
MoonLoop(st, i, cfg, times, target_ra, moon_dirs) ==
    IF i >= Len(times) \/ st.panic THEN st
    ELSE MoonLoop(MoonStep(st, i, cfg, times, target_ra, moon_dirs), i + 1,
                 cfg, times, target_ra, moon_dirs)

\* "Close any open violation at the end"
MoonClose(st, cfg, times) ==
    IF st.panic \/ ~IsSome(st.current_violation) THEN st
    ELSE LET start_idx == Unwrap(st.current_violation)[1]
             max_severity == Unwrap(st.current_violation)[2]
         IN  IF ~InRange(times, start_idx) \/ ~InRange(times, Len(times) - 1)
             THEN [st EXCEPT !.panic = TRUE]
             ELSE [st EXCEPT
                     !.violations = Append(@, ConstraintViolation(
                         to_rfc3339(At(times, start_idx)),
                         to_rfc3339(At(times, Len(times) - 1)),
                         max_severity,
                         MoonFinalViolationDescription(cfg)))]

\* MoonProximityEvaluator::evaluate
MoonProximityEvaluate(cfg, times, target_ra, moon_dirs) ==
    LET st == MoonClose(MoonLoop(ScanStart, 0, cfg, times, target_ra, moon_dirs),
                       cfg, times)
    IN  IF st.panic THEN Panicked
        ELSE ConstraintResult(st.violations, st.violations = <<>>,
                              MoonProximityName(cfg), TimesText(times))

(***************************************************************************)
(* BodyProximityEvaluator: the body positions arrive in the sun_positions  *)
(* slot.                                                                   *)
(***************************************************************************)
BodyProximityName(cfg) ==
    IF IsSome(cfg.max_angle)
    THEN <<"BodyProximity(body, min, max)", cfg.min_angle, Unwrap(cfg.max_angle)>>
    ELSE <<"BodyProximity(body, min)", cfg.min_angle>>

BodyIsViolation(cfg, angle_deg) ==
    IF IsSome(cfg.max_angle)
    THEN angle_deg < cfg.min_angle \/ angle_deg > Unwrap(cfg.max_angle)
    ELSE angle_deg < cfg.min_angle

\* x.max(1e-9) as a fraction
MaxTiny(x) == IF x >= 1 THEN <<x, 1>> ELSE <<1, 1000 * 1000 * 1000>>

BodySeverity(cfg, angle_deg) ==
    IF angle_deg < cfg.min_angle
    THEN Rat(cfg.min_angle - angle_deg, cfg.min_angle)
    ELSE IF IsSome(cfg.max_angle)
    THEN LET den == MaxTiny(Unwrap(cfg.max_angle))
         IN  Rat((angle_deg - Unwrap(cfg.max_angle)) * den[2], den[1])
    ELSE RatZero

BodyStep(st, i, cfg, times, target_ra, body_dirs) ==
    IF ~InRange(body_dirs, i) THEN [st EXCEPT !.panic = TRUE]
    ELSE
    LET angle_deg == AngularSeparation(target_ra, At(body_dirs, i))
    IN  IF BodyIsViolation(cfg, angle_deg)
        THEN LET severity == BodySeverity(cfg, angle_deg)
             IN  IF IsSome(st.current_violation)
                 THEN [st EXCEPT !.current_violation =
                          Some(<<Unwrap(@)[1], RatMax(Unwrap(@)[2], severity)>>)]
                 ELSE [st EXCEPT !.current_violation = Some(<<i, severity>>)]
        ELSE IF IsSome(st.current_violation)
        THEN LET start_idx == Unwrap(st.current_violation)[1]
                 max_severity == Unwrap(st.current_violation)[2]
             IN  IF ~InRange(times, start_idx) \/ ~InRange(times, i - 1)
                 THEN [st EXCEPT !.panic = TRUE]
                 ELSE [st EXCEPT
                         !.violations = Append(@, ConstraintViolation(
                             to_rfc3339(At(times, start_idx)),
                             to_rfc3339(At(times, i - 1)),
                             max_severity,
                             IF IsSome(cfg.max_angle)
                             THEN <<"Target within (angle) of body (min, max)",
                                    angle_deg, cfg.min_angle, Unwrap(cfg.max_angle)>>
                             ELSE <<"Target within (angle) of body (min allowed)",
                                    angle_deg, cfg.min_angle>>)),
                         !.current_violation = None]
        ELSE st

RECURSIVE BodyLoop(_, _, _, _, _, _)
BodyLoop(st, i, cfg, times, target_ra, body_dirs) ==
    IF i >= Len(times) \/ st.panic THEN st
    ELSE BodyLoop(BodyStep(st, i, cfg, times, target_ra, body_dirs), i + 1,
                  cfg, times, target_ra, body_dirs)

BodyClose(st, cfg, times) ==
    IF st.panic \/ ~IsSome(st.current_violation) THEN st
    ELSE LET start_idx == Unwrap(st.current_violation)[1]
             max_severity == Unwrap(st.current_violation)[2]
         IN  IF ~InRange(times, start_idx) \/ ~InRange(times, Len(times) - 1)
             THEN [st EXCEPT !.panic = TRUE]
             ELSE [st EXCEPT
                     !.violations = Append(@, ConstraintViolation(
                         to_rfc3339(At(times, start_idx)),
                         to_rfc3339(At(times, Len(times) - 1)),
                         max_severity,
                         IF IsSome(cfg.max_angle)
                         THEN <<"Target too close to body (min, max)",
                                cfg.min_angle, Unwrap(cfg.max_angle)>>
                         ELSE <<"Target too close to body (min allowed)",
                                cfg.min_angle>>))]

\* BodyProximityEvaluator::evaluate
BodyProximityEvaluate(cfg, times, target_ra, body_dirs) ==
    LET st == BodyClose(BodyLoop(ScanStart, 0, cfg, times, target_ra, body_dirs),
                        cfg, times)
    IN  IF st.panic THEN Panicked
        ELSE ConstraintResult(st.violations, st.violations = <<>>,
                              BodyProximityName(cfg), TimesText(times))

(***************************************************************************)
(* Derived queries of ConstraintResult (constraints.rs).                   *)
(***************************************************************************)
\* total_violation_duration: <<"Ok", seconds>> or <<"Err", 0>>.
\* (end - start).num_seconds() truncates toward zero.
RECURSIVE DurationLoop(_, _, _)
DurationLoop(violations, k, total_seconds) ==
    IF k > Len(violations) THEN <<"Ok", total_seconds>>
    ELSE LET start == parse_from_rfc3339(violations[k].start_time)
             end == parse_from_rfc3339(violations[k].end_time)
         IN  IF start = ParseErr \/ end = ParseErr THEN <<"Err", 0>>
             ELSE DurationLoop(violations, k + 1,
                      total_seconds +
                      (IF end >= start THEN (end - start) \div MicrosPerSecond
                       ELSE 0 - ((start - end) \div MicrosPerSecond)))

\* a total that leaves the first window out
total_violation_duration_from_second(self) == DurationLoop(self.violations, 2, 0)

total_violation_duration(self) == DurationLoop(self.violations, 1, 0)

\* a mask that takes the end of a window as outside the window
compute_constraint_vec_open_end(self) ==
    IF self.times = <<>> THEN <<>>
    ELSE [i \in 1..Len(self.times) |->
            ~\E k \in 1..Len(self.violations) :
                /\ StrLeq(self.violations[k].start_time, self.times[i])
                /\ StrLt(self.times[i], self.violations[k].end_time)]

\* _compute_constraint_vec: string comparison of the stored texts
compute_constraint_vec(self) ==
    IF self.times = <<>> THEN <<>>
    ELSE [i \in 1..Len(self.times) |->
            ~\E k \in 1..Len(self.violations) :
                /\ StrLeq(self.violations[k].start_time, self.times[i])
                /\ StrLeq(self.times[i], self.violations[k].end_time)]

\* the constraint_array getter
constraint_array(self) == compute_constraint_vec(self)

\* self.times.iter().position(|t| t == &t_str): the first match, 1-based,
\* or 0 when there is none
Position(times, t_str) ==
    IF \E k \in 1..Len(times) : times[k] = t_str
    THEN CHOOSE k \in 1..Len(times) :
            /\ times[k] = t_str
            /\ \A j \in 1..(k - 1) : times[j] # t_str
    ELSE 0

\* the text in_constraint looks up: a str argument is taken as it is, a
\* datetime argument through its isoformat()
QueryText(time) == IF time.type = "str" THEN time.text ELSE isoformat(time)

\* in_constraint(time): <<"Ok", bool>> or <<"Err", FALSE>> (ValueError)
in_constraint(self, time) ==
    LET t_str == QueryText(time)
        idx == Position(self.times, t_str)
    IN  IF idx # 0 THEN <<"Ok", compute_constraint_vec(self)[idx]>>
        ELSE <<"Err", FALSE>>

(***************************************************************************)
(* The evaluators of constraints/*.rs take the ephemeris and an optional   *)
(* list of row indices (0-based). Their results hold DateTime values.      *)
(***************************************************************************)
\* indices.iter().map(|&i| a[i]) and a.select(Axis(0), indices)
Select(s, indices) == [k \in 1..Len(indices) |-> At(s, indices[k])]

\* extract_time_data!: the timestamps, filtered by time_indices when given
extract_time_data(ephemeris, time_indices) ==
    IF IsSome(time_indices)
    THEN Select(ephemeris.times, Unwrap(time_indices))
    ELSE ephemeris.times

\* extract_standard_ephemeris_data!: the timestamps and the Sun and observer
\* position rows, all filtered by the same indices
extract_standard_ephemeris_data(ephemeris, time_indices) ==
    [times |-> extract_time_data(ephemeris, time_indices),
     rows |-> IF IsSome(time_indices)
              THEN Select(ephemeris.rows, Unwrap(time_indices))
              ELSE ephemeris.rows]

\* extract_observer_ephemeris_data!: the timestamps and the observer rows
extract_observer_ephemeris_data(ephemeris, time_indices) ==
    extract_standard_ephemeris_data(ephemeris, time_indices)

\* ConstraintResult::new
ConstraintResultNew(violations, all_satisfied, constraint_name, times) ==
    ConstraintResult(violations, all_satisfied, constraint_name, times)

(***************************************************************************)
(* track_violations(times, sample, description): scans the indices in      *)
(* order. samples holds sample(i) = <<violated, severity>> of every index  *)
(* i, descriptions holds for every index i the text description(i, final)  *)
(* of a window that starts there, closed in mid-sequence (mid) and at the  *)
(* end of the sequence (final).                                            *)
(***************************************************************************)
TrackStep(st, i, times, samples, descriptions) ==
    LET violated == At(samples, i)[1]
        severity == At(samples, i)[2]
    IN  IF violated
        THEN IF IsSome(st.current_violation)
             THEN [st EXCEPT !.current_violation =
                      Some(<<Unwrap(@)[1], RatMax(Unwrap(@)[2], severity)>>)]
             ELSE [st EXCEPT !.current_violation = Some(<<i, severity>>)]
        ELSE IF IsSome(st.current_violation)
        THEN LET start_idx == Unwrap(st.current_violation)[1]
                 max_severity == Unwrap(st.current_violation)[2]
             IN  [st EXCEPT
                    !.violations = Append(@, ConstraintViolation(
                        At(times, start_idx), At(times, i - 1), max_severity,
                        At(descriptions, start_idx).mid)),
                    !.current_violation = None]
        ELSE st

RECURSIVE TrackLoop(_, _, _, _, _)
TrackLoop(st, i, times, samples, descriptions) ==
    IF i >= Len(times) THEN st
    ELSE TrackLoop(TrackStep(st, i, times, samples, descriptions), i + 1,
                   times, samples, descriptions)

track_violations(times, samples, descriptions) ==
    LET st == TrackLoop(ScanStart, 0, times, samples, descriptions)
    IN  IF IsSome(st.current_violation)
        THEN LET start_idx == Unwrap(st.current_violation)[1]
                 max_severity == Unwrap(st.current_violation)[2]
             IN  Append(st.violations, ConstraintViolation(
                     At(times, start_idx), At(times, Len(times) - 1),
                     max_severity, At(descriptions, start_idx).final))
        ELSE st.violations

\* Ok(result) of in_constraint_batch: the matrix is the sequence of its
\* rows, one per target, each the sequence of its entries over the times
BatchOk(matrix) == [tag |-> "ok", value |-> matrix]

(***************************************************************************)
(* EclipseEvaluator (constraints/eclipse.rs). A row's shadow field is what *)
(* shadow_geometry returns for its observer and Sun positions.             *)
(***************************************************************************)
EclipseName(self) ==
    IF self.umbra_only THEN <<"Eclipse(umbra)">>
    ELSE <<"Eclipse(umbra+penumbra)">>

EclipseDescription(self) ==
    IF self.umbra_only THEN <<"Observer in umbra">>
    ELSE <<"Observer in shadow">>

\* a classification that counts the penumbra whatever umbra_only says
shadow_status_with_penumbra(self, geometry) ==
    IF IsSome(geometry)
    THEN LET dist_to_axis == Unwrap(geometry)[1]
             umbra_radius == Unwrap(geometry)[2]
             penumbra_radius == Unwrap(geometry)[3]
             in_umbra == umbra_radius > 0 /\ dist_to_axis < umbra_radius
         IN  IF in_umbra
             THEN <<TRUE, Rat(umbra_radius - dist_to_axis, umbra_radius)>>
             ELSE IF dist_to_axis < penumbra_radius
             THEN LET denom == MaxTiny(penumbra_radius - umbra_radius)
                  IN  <<TRUE, Rat((penumbra_radius - dist_to_axis) * denom[2],
                                  2 * denom[1])>>
             ELSE <<FALSE, RatZero>>
    ELSE <<FALSE, RatZero>>

shadow_status(self, geometry) ==
    IF IsSome(geometry)
    THEN LET dist_to_axis == Unwrap(geometry)[1]
             umbra_radius == Unwrap(geometry)[2]
             penumbra_radius == Unwrap(geometry)[3]
             in_umbra == umbra_radius > 0 /\ dist_to_axis < umbra_radius
         IN  IF in_umbra
             THEN <<TRUE, Rat(umbra_radius - dist_to_axis, umbra_radius)>>
             ELSE IF ~self.umbra_only /\ dist_to_axis < penumbra_radius
             THEN LET denom == MaxTiny(penumbra_radius - umbra_radius)
                  IN  <<TRUE, Rat((penumbra_radius - dist_to_axis) * denom[2],
                                  2 * denom[1])>>
             ELSE <<FALSE, RatZero>>
    ELSE <<FALSE, RatZero>>

compute_eclipse_mask(self, times, rows) ==
    [k \in 1..Len(times) |-> shadow_status(self, rows[k].shadow)[1]]

\* one iteration of the loop of evaluate at index i
EclipseStep(st, i, self, times_filtered, rows) ==
    LET status == shadow_status(self, At(rows, i).shadow)
        in_shadow == status[1]
        severity == status[2]
    IN  IF in_shadow
        THEN IF IsSome(st.current_violation)
             THEN [st EXCEPT !.current_violation =
                      Some(<<Unwrap(@)[1], RatMax(Unwrap(@)[2], severity)>>)]
             ELSE [st EXCEPT !.current_violation = Some(<<i, severity>>)]
        ELSE IF IsSome(st.current_violation)
        THEN LET start_idx == Unwrap(st.current_violation)[1]
                 max_severity == Unwrap(st.current_violation)[2]
             IN  IF ~InRange(times_filtered, start_idx)
                    \/ ~InRange(times_filtered, i - 1)
                 THEN [st EXCEPT !.panic = TRUE]
                 ELSE [st EXCEPT
                         !.violations = Append(@, ConstraintViolation(
                             At(times_filtered, start_idx),
                             At(times_filtered, i - 1),
                             max_severity, EclipseDescription(self))),
                         !.current_violation = None]
        ELSE st

RECURSIVE EclipseLoop(_, _, _, _, _)
EclipseLoop(st, i, self, times_filtered, rows) ==
    IF i >= Len(times_filtered) \/ st.panic THEN st
    ELSE EclipseLoop(EclipseStep(st, i, self, times_filtered, rows), i + 1,
                     self, times_filtered, rows)

\* a final close that takes the last sample as start and the start as end
EclipseCloseSwapped(st, self, times_filtered) ==
    IF st.panic \/ ~IsSome(st.current_violation) THEN st
    ELSE LET start_idx == Unwrap(st.current_violation)[1]
             max_severity == Unwrap(st.current_violation)[2]
         IN  [st EXCEPT
                !.violations = Append(@, ConstraintViolation(
                    At(times_filtered, Len(times_filtered) - 1),
                    At(times_filtered, start_idx),
                    max_severity, EclipseDescription(self)))]

\* "Close any open violation at the end"
EclipseClose(st, self, times_filtered) ==
    IF st.panic \/ ~IsSome(st.current_violation) THEN st
    ELSE LET start_idx == Unwrap(st.current_violation)[1]
             max_severity == Unwrap(st.current_violation)[2]
         IN  IF ~InRange(times_filtered, start_idx)
                \/ ~InRange(times_filtered, Len(times_filtered) - 1)
             THEN [st EXCEPT !.panic = TRUE]
             ELSE [st EXCEPT
                     !.violations = Append(@, ConstraintViolation(
                         At(times_filtered, start_idx),
                         At(times_filtered, Len(times_filtered) - 1),
                         max_severity, EclipseDescription(self)))]

\* EclipseEvaluator::evaluate
EclipseEvaluate(self, ephemeris, target_ra, target_dec, time_indices) ==
    LET data == extract_standard_ephemeris_data(ephemeris, time_indices)
        st == EclipseClose(
                  EclipseLoop(ScanStart, 0, self, data.times, data.rows),
                  self, data.times)
    IN  IF st.panic THEN Panicked
        ELSE ConstraintResultNew(st.violations, st.violations = <<>>,
                                 EclipseName(self), data.times)

\* EclipseEvaluator::in_constraint_batch
EclipseInConstraintBatch(self, ephemeris, target_ras, target_decs, time_indices) ==
    LET data == extract_standard_ephemeris_data(ephemeris, time_indices)
    IN  IF Len(target_ras) # Len(target_decs)
        THEN Failed("target_ras and target_decs must have the same length")
        ELSE LET time_results ==
                     compute_eclipse_mask(self, data.times, data.rows)
             IN  BatchOk([t \in 1..Len(target_ras) |->
                            [j \in 1..Len(data.times) |-> time_results[j]]])

(***************************************************************************)
(* utils/vector_math.rs on directions along the coordinate axes: right     *)
(* ascensions and declinations are multiples of 90 degrees, vectors have   *)
(* at most one nonzero component, so every value is a whole number.        *)
(***************************************************************************)
CosDeg(a) == CASE a % 360 = 0 -> 1 [] a % 360 = 180 -> 0 - 1 [] OTHER -> 0
SinDeg(a) == CASE a % 360 = 90 -> 1 [] a % 360 = 270 -> 0 - 1 [] OTHER -> 0

\* clamp(-1.0, 1.0).acos().to_degrees()
AcosDeg(c) == IF c >= 1 THEN 0 ELSE IF c <= 0 - 1 THEN 180 ELSE 90

radec_to_unit_vector(ra_deg, dec_deg) ==
    <<CosDeg(dec_deg) * CosDeg(ra_deg), CosDeg(dec_deg) * SinDeg(ra_deg),
      SinDeg(dec_deg)>>

dot_product(a, b) == a[1] * b[1] + a[2] * b[2] + a[3] * b[3]

vector_magnitude(v) == Abs(v[1]) + Abs(v[2]) + Abs(v[3])

normalize_vector(v) ==
    LET mag == vector_magnitude(v)
    IN  IF mag > 0 THEN <<v[1] \div mag, v[2] \div mag, v[3] \div mag>>
        ELSE <<0, 0, 0>>

(***************************************************************************)
(* EarthLimbEvaluator (constraints.rs). Observer positions are in          *)
(* thousands of kilometres, EARTH_RADIUS in kilometres.                    *)
(***************************************************************************)
EARTH_RADIUS == 6378

\* asin().to_degrees() of a ratio given in thousandths, to the nearest
\* tabulated angle below
AsinDeg(x) ==
    CASE x >= 1000 -> 90
      [] x >= 906 /\ x < 1000 -> 65
      [] x >= 866 /\ x < 906 -> 60
      [] x >= 707 /\ x < 866 -> 45
      [] x >= 500 /\ x < 707 -> 30
      [] OTHER -> 0

\* EarthLimbConfig::name
EarthLimbConfigName(cfg) ==
    IF IsSome(cfg.max_angle)
    THEN <<"EarthLimb(min, max)", cfg.min_angle, Unwrap(cfg.max_angle)>>
    ELSE <<"EarthLimb(min)", cfg.min_angle>>

\* EarthLimbEvaluator::name
EarthLimbName(cfg) == <<"EarthLimb(min)", cfg.min_angle>>

\* earth_ang_radius_deg + self.min_angle_deg at one observer position
EarthLimbThreshold(cfg, obs_pos) ==
    LET r == vector_magnitude(obs_pos)
        ratio == IF r = 0 THEN 1000 ELSE Min2(EARTH_RADIUS \div r, 1000)
    IN  AsinDeg(ratio) + cfg.min_angle

\* the angle between the target and the centre of the Earth
EarthLimbAngle(target_ra, target_dec, obs_pos) ==
    LET target_vec == radec_to_unit_vector(target_ra, target_dec)
        center_unit == normalize_vector(<<0 - obs_pos[1], 0 - obs_pos[2],
                                          0 - obs_pos[3]>>)
    IN  AcosDeg(dot_product(target_vec, center_unit))

EarthLimbIsViolation(cfg, angle_deg, threshold_deg) ==
    IF IsSome(cfg.max_angle)
    THEN angle_deg < threshold_deg \/ angle_deg > Unwrap(cfg.max_angle)
    ELSE angle_deg < threshold_deg

EarthLimbSeverity(cfg, angle_deg, threshold_deg) ==
    IF angle_deg < threshold_deg
    THEN LET den == MaxTiny(threshold_deg)
         IN  Rat((threshold_deg - angle_deg) * den[2], den[1])
    ELSE IF IsSome(cfg.max_angle)
    THEN LET den == MaxTiny(Unwrap(cfg.max_angle))
         IN  Rat((angle_deg - Unwrap(cfg.max_angle)) * den[2], den[1])
    ELSE RatZero

EarthLimbDescription(cfg, threshold_deg) ==
    IF IsSome(cfg.max_angle)
    THEN <<"Target within Earth limb + margin (min, max)", threshold_deg,
           Unwrap(cfg.max_angle)>>
    ELSE <<"Target within Earth limb + margin (min allowed)", threshold_deg>>

EarthLimbStep(st, i, cfg, times, target_ra, target_dec, observer_positions) ==
    IF ~InRange(observer_positions, i) THEN [st EXCEPT !.panic = TRUE]
    ELSE
    LET obs_pos == At(observer_positions, i)
        threshold_deg == EarthLimbThreshold(cfg, obs_pos)
        angle_deg == EarthLimbAngle(target_ra, target_dec, obs_pos)
    IN  IF EarthLimbIsViolation(cfg, angle_deg, threshold_deg)
        THEN LET severity == EarthLimbSeverity(cfg, angle_deg, threshold_deg)
             IN  IF IsSome(st.current_violation)
                 THEN [st EXCEPT !.current_violation =
                          Some(<<Unwrap(@)[1], RatMax(Unwrap(@)[2], severity)>>)]
                 ELSE [st EXCEPT !.current_violation = Some(<<i, severity>>)]
        ELSE IF IsSome(st.current_violation)
        THEN LET start_idx == Unwrap(st.current_violation)[1]
                 max_severity == Unwrap(st.current_violation)[2]
             IN  IF ~InRange(times, start_idx) \/ ~InRange(times, i - 1)
                 THEN [st EXCEPT !.panic = TRUE]
                 ELSE [st EXCEPT
                         !.violations = Append(@, ConstraintViolation(
                             to_rfc3339(At(times, start_idx)),
                             to_rfc3339(At(times, i - 1)),
                             max_severity,
                             EarthLimbDescription(cfg, threshold_deg))),
                         !.current_violation = None]
        ELSE st

RECURSIVE EarthLimbLoop(_, _, _, _, _, _, _)
EarthLimbLoop(st, i, cfg, times, target_ra, target_dec, observer_positions) ==
    IF i >= Len(times) \/ st.panic THEN st
    ELSE EarthLimbLoop(EarthLimbStep(st, i, cfg, times, target_ra, target_dec,
                                     observer_positions),
                       i + 1, cfg, times, target_ra, target_dec,
                       observer_positions)

EarthLimbClose(st, cfg, times, observer_positions) ==
    IF st.panic \/ ~IsSome(st.current_violation) THEN st
    ELSE LET start_idx == Unwrap(st.current_violation)[1]
             max_severity == Unwrap(st.current_violation)[2]
         IN  IF \/ ~InRange(observer_positions, Len(times) - 1)
                \/ ~InRange(times, start_idx)
                \/ ~InRange(times, Len(times) - 1)
             THEN [st EXCEPT !.panic = TRUE]
             ELSE [st EXCEPT
                     !.violations = Append(@, ConstraintViolation(
                         to_rfc3339(At(times, start_idx)),
                         to_rfc3339(At(times, Len(times) - 1)),
                         max_severity,
                         EarthLimbDescription(cfg, EarthLimbThreshold(cfg,
                             At(observer_positions, Len(times) - 1)))))]

\* EarthLimbEvaluator::evaluate
EarthLimbEvaluate(cfg, times, target_ra, target_dec, observer_positions) ==
    LET st == EarthLimbClose(
                  EarthLimbLoop(ScanStart, 0, cfg, times, target_ra, target_dec,
                                observer_positions),
                  cfg, times, observer_positions)
    IN  IF st.panic THEN Panicked
        ELSE ConstraintResult(st.violations, st.violations = <<>>,
                              EarthLimbName(cfg), TimesText(times))

(***************************************************************************)
(* OrbitPoleEvaluator (constraints/orbit_pole.rs). gcrs_cols = 0 stands    *)
(* for an ephemeris without GCRS data.                                     *)
(***************************************************************************)
OrbitPoleName(self) ==
    IF IsSome(self.max_angle_deg)
    THEN <<"OrbitPoleConstraint(min, max)", self.min_angle_deg,
           Unwrap(self.max_angle_deg)>>
    ELSE <<"OrbitPoleConstraint(min)", self.min_angle_deg>>

calculate_orbital_pole(position, velocity) ==
    normalize_vector(
        <<position[2] * velocity[3] - position[3] * velocity[2],
          position[3] * velocity[1] - position[1] * velocity[3],
          position[1] * velocity[2] - position[2] * velocity[1]>>)

\* the angle between the target and the orbital pole of one GCRS row
PoleAngle(row, target_ra, target_dec) ==
    AcosDeg(dot_product(radec_to_unit_vector(target_ra, target_dec),
                        calculate_orbital_pole(row.pos, row.vel)))

\* f64::min(1.0) of a whole number of degrees
MinOne(x) == IF x >= 1 THEN RatOne ELSE Rat(x, 1)

\* a sampling closure that computes the angle whatever columns there are
OrbitPoleSampleUnguarded(self, ephemeris, target_ra, target_dec, i) ==
    LET angle_deg == PoleAngle(At(ephemeris.rows, i), target_ra, target_dec)
        below == angle_deg < self.min_angle_deg
        above == IsSome(self.max_angle_deg)
                 /\ angle_deg > Unwrap(self.max_angle_deg)
    IN  <<below \/ above,
          IF above THEN MinOne(angle_deg - Unwrap(self.max_angle_deg))
          ELSE IF below THEN MinOne(self.min_angle_deg - angle_deg)
          ELSE RatOne>>

\* the sampling closure of evaluate: it reads row i of the GCRS array of
\* the ephemeris
OrbitPoleSample(self, ephemeris, target_ra, target_dec, i) ==
    IF ephemeris.gcrs_cols = 0 THEN <<FALSE, RatZero>>
    ELSE IF ephemeris.gcrs_cols < 6 THEN <<FALSE, RatZero>>
    ELSE
    LET angle_deg == PoleAngle(At(ephemeris.rows, i), target_ra, target_dec)
        below == angle_deg < self.min_angle_deg
        above == IsSome(self.max_angle_deg)
                 /\ angle_deg > Unwrap(self.max_angle_deg)
    IN  <<below \/ above,
          IF above THEN MinOne(angle_deg - Unwrap(self.max_angle_deg))
          ELSE IF below THEN MinOne(self.min_angle_deg - angle_deg)
          ELSE RatOne>>

\* the description closure of evaluate
OrbitPoleDescription(self, ephemeris, target_ra, target_dec, i, violated) ==
    IF ~violated THEN <<"">>
    ELSE LET angle_deg ==
                 PoleAngle(At(ephemeris.rows, i), target_ra, target_dec)
         IN  IF IsSome(self.max_angle_deg)
             THEN <<"Target angle from orbital pole (angle) outside allowed range",
                    angle_deg, self.min_angle_deg, Unwrap(self.max_angle_deg)>>
             ELSE <<"Target too close to orbital pole (angle < minimum)",
                    angle_deg, self.min_angle_deg>>

\* OrbitPoleEvaluator::evaluate
OrbitPoleEvaluate(self, ephemeris, target_ra, target_dec, time_indices) ==
    LET times_filtered ==
            IF IsSome(time_indices)
            THEN Select(ephemeris.times, Unwrap(time_indices))
            ELSE ephemeris.times
        violations == track_violations(times_filtered,
            [k \in 1..Len(times_filtered) |->
                OrbitPoleSample(self, ephemeris, target_ra, target_dec, k - 1)],
            [k \in 1..Len(times_filtered) |->
                [mid |-> OrbitPoleDescription(self, ephemeris, target_ra,
                                              target_dec, k - 1, FALSE),
                 final |-> OrbitPoleDescription(self, ephemeris, target_ra,
                                                target_dec, k - 1, TRUE)]])
    IN  ConstraintResultNew(violations, violations = <<>>,
                            OrbitPoleName(self), times_filtered)

\* OrbitPoleEvaluator::in_constraint_batch
OrbitPoleInConstraintBatch(self, ephemeris, target_ras, target_decs, time_indices) ==
    LET times_filtered == extract_time_data(ephemeris, time_indices)
        n_targets == Len(target_ras)
        n_times == Len(times_filtered)
    IN  IF Len(target_ras) # Len(target_decs) THEN Panicked
        ELSE IF ephemeris.gcrs_cols = 0
        THEN Failed("GCRS data not available in ephemeris")
        ELSE IF ephemeris.gcrs_cols < 6
        THEN Failed("Velocity data not available in ephemeris")
        ELSE
        LET gcrs_filtered ==
                IF IsSome(time_indices)
                THEN Select(ephemeris.rows, Unwrap(time_indices))
                ELSE ephemeris.rows
        IN  BatchOk([j \in 1..n_targets |-> [i \in 1..n_times |->
                LET angle_deg == PoleAngle(gcrs_filtered[i],
                                     target_ras[j], target_decs[j])
                    violated ==
                        \/ angle_deg < self.min_angle_deg
                        \/ IsSome(self.max_angle_deg)
                           /\ angle_deg > Unwrap(self.max_angle_deg)
                IN  ~violated]])

(***************************************************************************)
(* SAAEvaluator (constraints/saa.rs). The polygon is a sequence of         *)
(* <<longitude, latitude>> vertices.                                       *)
(***************************************************************************)
\* SAAConfig::to_evaluator: the evaluator holds a copy of the polygon
SAAToEvaluator(config) == [polygon |-> config.polygon]

SAAName(self) == <<"SAAConstraint(vertices)", Len(self.polygon)>>

\* a winding count that looks at the upward crossings only
WindingOfEdgeUpward(polygon, i, lon, lat) ==
    LET n == Len(polygon)
        j == (i + 1) % n
        x1 == At(polygon, i)[1]
        y1 == At(polygon, i)[2]
        x2 == At(polygon, j)[1]
        y2 == At(polygon, j)[2]
        side == (x2 - x1) * (lat - y1) - (lon - x1) * (y2 - y1)
    IN  IF y1 <= lat /\ y2 > lat /\ side > 0 THEN 1 ELSE 0

\* the contribution of the edge that starts at vertex i (0-based) to the
\* winding number
WindingOfEdge(polygon, i, lon, lat) ==
    LET n == Len(polygon)
        j == (i + 1) % n
        x1 == At(polygon, i)[1]
        y1 == At(polygon, i)[2]
        x2 == At(polygon, j)[1]
        y2 == At(polygon, j)[2]
        side == (x2 - x1) * (lat - y1) - (lon - x1) * (y2 - y1)
    IN  IF y1 <= lat
        THEN IF y2 > lat /\ side > 0 THEN 1 ELSE 0
        ELSE IF y2 <= lat /\ side < 0 THEN 0 - 1 ELSE 0

RECURSIVE WindingLoop(_, _, _, _, _)
WindingLoop(polygon, i, lon, lat, winding_number) ==
    IF i >= Len(polygon) THEN winding_number
    ELSE WindingLoop(polygon, i + 1, lon, lat,
                     winding_number + WindingOfEdge(polygon, i, lon, lat))

point_in_polygon(self, lon, lat) ==
    WindingLoop(self.polygon, 0, lon, lat, 0) # 0

SAADescription(lat, lon) == <<"In SAA region (lat, lon)", lat, lon>>

evaluate_with_latlon(self, times, lats, lons) ==
    LET violations == track_violations(times,
            [k \in 1..Len(times) |->
                LET in_saa == point_in_polygon(self, lons[k], lats[k])
                IN  <<in_saa, IF in_saa THEN RatOne ELSE RatZero>>],
            [k \in 1..Len(times) |->
                [mid |-> SAADescription(lats[k], lons[k]),
                 final |-> SAADescription(lats[k], lons[k])]])
    IN  ConstraintResultNew(violations, violations = <<>>, SAAName(self), times)

\* a batch that fills the row of the first target only
in_constraint_batch_first_target(self, target_ras, lats, lons) ==
    [target_idx \in 1..Len(target_ras) |-> [i \in 1..Len(lats) |->
        LET in_saa == point_in_polygon(self, lons[i], lats[i])
            satisfied == ~in_saa
        IN  IF target_idx = 1 THEN satisfied ELSE FALSE]]

in_constraint_batch_with_latlon(self, target_ras, lats, lons) ==
    [target_idx \in 1..Len(target_ras) |-> [i \in 1..Len(lats) |->
        LET in_saa == point_in_polygon(self, lons[i], lats[i])
            satisfied == ~in_saa
        IN  satisfied]]

\* an evaluate that reports every sample satisfied when the latitude or the
\* longitude is missing
SAAEvaluateDegraded(self, ephemeris, target_ra, target_dec, time_indices) ==
    IF ~(ephemeris.has_latlon.lat /\ ephemeris.has_latlon.lon)
    THEN ConstraintResultNew(<<>>, TRUE, SAAName(self),
                             extract_time_data(ephemeris, time_indices))
    ELSE LET lats_vec == Column(ephemeris.rows, "lat")
             lons_vec == Column(ephemeris.rows, "lon")
         IN  evaluate_with_latlon(self,
                 extract_time_data(ephemeris, time_indices),
                 IF IsSome(time_indices)
                 THEN Select(lats_vec, Unwrap(time_indices)) ELSE lats_vec,
                 IF IsSome(time_indices)
                 THEN Select(lons_vec, Unwrap(time_indices)) ELSE lons_vec)

\* SAAEvaluator::evaluate
SAAEvaluate(self, ephemeris, target_ra, target_dec, time_indices) ==
    IF ~ephemeris.has_latlon.lat THEN Failed("Latitude data not available")
    ELSE IF ~ephemeris.has_latlon.lon THEN Failed("Longitude data not available")
    ELSE LET lats_vec == Column(ephemeris.rows, "lat")
             lons_vec == Column(ephemeris.rows, "lon")
         IN  IF IsSome(time_indices)
             THEN evaluate_with_latlon(self,
                      Select(ephemeris.times, Unwrap(time_indices)),
                      Select(lats_vec, Unwrap(time_indices)),
                      Select(lons_vec, Unwrap(time_indices)))
             ELSE evaluate_with_latlon(self, ephemeris.times, lats_vec, lons_vec)

\* SAAEvaluator::in_constraint_batch
SAAInConstraintBatch(self, ephemeris, target_ras, target_decs, time_indices) ==
    IF ~ephemeris.has_latlon.lat THEN Failed("Latitude data not available")
    ELSE IF ~ephemeris.has_latlon.lon THEN Failed("Longitude data not available")
    ELSE LET lats_vec == Column(ephemeris.rows, "lat")
             lons_vec == Column(ephemeris.rows, "lon")
         IN  IF IsSome(time_indices)
             THEN BatchOk(in_constraint_batch_with_latlon(self, target_ras,
                      Select(lats_vec, Unwrap(time_indices)),
                      Select(lons_vec, Unwrap(time_indices))))
             ELSE BatchOk(in_constraint_batch_with_latlon(self, target_ras,
                      lats_vec, lons_vec))

(***************************************************************************)
(* AltAzEvaluator::in_constraint_batch (constraints/alt_az.rs)             *)
(***************************************************************************)
\* calculate_alt_az returns the same altitude and azimuth for every input
calculate_alt_az(target_unit, observer_pos) == <<45, 180>>

AltAzViolated(self, altitude_deg, azimuth_deg) ==
    LET alt_violated ==
            \/ altitude_deg < self.min_altitude
            \/ IsSome(self.max_altitude)
               /\ altitude_deg > Unwrap(self.max_altitude)
        az_violated ==
            IF IsSome(self.min_azimuth)
            THEN IF IsSome(self.max_azimuth)
                 THEN LET min_azimuth == Unwrap(self.min_azimuth)
                          max_azimuth == Unwrap(self.max_azimuth)
                          az_in_range ==
                              IF min_azimuth <= max_azimuth
                              THEN azimuth_deg >= min_azimuth
                                   /\ azimuth_deg <= max_azimuth
                              ELSE azimuth_deg >= min_azimuth
                                   \/ azimuth_deg <= max_azimuth
                      IN  ~az_in_range
                 ELSE azimuth_deg < Unwrap(self.min_azimuth)
            ELSE IsSome(self.max_azimuth)
                 /\ azimuth_deg > Unwrap(self.max_azimuth)
    IN  alt_violated \/ az_violated

AltAzInConstraintBatch(self, ephemeris, target_ras, target_decs, time_indices) ==
    LET data == extract_observer_ephemeris_data(ephemeris, time_indices)
        n_targets == Len(target_ras)
        n_times == Len(data.rows)
    IN  IF Len(target_ras) # Len(target_decs) THEN Panicked
        ELSE BatchOk([j \in 1..n_targets |-> [i \in 1..n_times |->
                LET alt_az == calculate_alt_az(
                        radec_to_unit_vector(target_ras[j], target_decs[j]),
                        data.rows[i].pos)
                    violated == AltAzViolated(self, alt_az[1], alt_az[2])
                IN  violated]])

(***************************************************************************)
(* AltAzEvaluator::evaluate (constraints/alt_az.rs)                        *)
(***************************************************************************)
AltAzName(self) ==
    <<"AltAzConstraint(min_alt, max_alt, min_az, max_az)", self.min_altitude,
      self.max_altitude, self.min_azimuth, self.max_azimuth>>

\* x.min(1.0) of a whole number of degrees
MinWithOne(x) == IF x <= 1 THEN Rat(x, 1) ELSE RatOne

\* an azimuth test that takes the direct interval whatever the order of
\* the bounds
AltAzSampleDirect(self, altitude_deg, azimuth_deg) ==
    IF altitude_deg < self.min_altitude
       \/ (IsSome(self.max_altitude) /\ altitude_deg > Unwrap(self.max_altitude))
    THEN <<TRUE, RatOne>>
    ELSE IF IsSome(self.min_azimuth) /\ IsSome(self.max_azimuth)
    THEN <<~(azimuth_deg >= Unwrap(self.min_azimuth)
             /\ azimuth_deg <= Unwrap(self.max_azimuth)), RatOne>>
    ELSE <<FALSE, RatOne>>

\* the sampling closure of evaluate: <<violated, severity>>
AltAzSample(self, altitude_deg, azimuth_deg) ==
    LET low == altitude_deg < self.min_altitude
        high == IsSome(self.max_altitude)
                /\ altitude_deg > Unwrap(self.max_altitude)
        alt_severity ==
            IF high THEN MinWithOne(altitude_deg - Unwrap(self.max_altitude))
            ELSE IF low THEN MinWithOne(self.min_altitude - altitude_deg)
            ELSE RatOne
    IN  IF low \/ high THEN <<TRUE, alt_severity>>
        ELSE IF IsSome(self.min_azimuth)
        THEN IF IsSome(self.max_azimuth)
             THEN LET min_azimuth == Unwrap(self.min_azimuth)
                      max_azimuth == Unwrap(self.max_azimuth)
                      az_in_range ==
                          IF min_azimuth <= max_azimuth
                          THEN azimuth_deg >= min_azimuth
                               /\ azimuth_deg <= max_azimuth
                          ELSE azimuth_deg >= min_azimuth
                               \/ azimuth_deg <= max_azimuth
                  IN  IF ~az_in_range THEN <<TRUE, RatOne>>
                      ELSE <<FALSE, RatOne>>
             ELSE IF azimuth_deg < Unwrap(self.min_azimuth)
             THEN <<TRUE, MinWithOne(Unwrap(self.min_azimuth) - azimuth_deg)>>
             ELSE <<FALSE, RatOne>>
        ELSE IF IsSome(self.max_azimuth)
                /\ azimuth_deg > Unwrap(self.max_azimuth)
        THEN <<TRUE, MinWithOne(azimuth_deg - Unwrap(self.max_azimuth))>>
        ELSE <<FALSE, RatOne>>

\* format_violation_description: the values the text is formatted from
AltAzDescription(self, altitude_deg, azimuth_deg) ==
    <<"Target position violates constraints", altitude_deg, azimuth_deg,
      AltAzViolated(self, altitude_deg, azimuth_deg)>>

\* AltAzEvaluator::evaluate; the description closure reads row 0
AltAzEvaluate(self, ephemeris, target_ra, target_dec, time_indices) ==
    LET data == extract_observer_ephemeris_data(ephemeris, time_indices)
        target_unit == radec_to_unit_vector(target_ra, target_dec)
        violations == track_violations(data.times,
            [k \in 1..Len(data.times) |->
                LET alt_az == calculate_alt_az(target_unit, data.rows[k].pos)
                IN  AltAzSample(self, alt_az[1], alt_az[2])],
            [k \in 1..Len(data.times) |->
                LET alt_az == calculate_alt_az(target_unit, At(data.rows, 0).pos)
                    text == AltAzDescription(self, alt_az[1], alt_az[2])
                IN  [mid |-> text, final |-> text]])
    IN  ConstraintResultNew(violations, violations = <<>>, AltAzName(self),
                            data.times)

(***************************************************************************)
(* DaytimeEvaluator::in_constraint_batch (constraints/daytime.rs)          *)
(***************************************************************************)
twilight_angle(self) ==
    CASE self.twilight = "Civil" -> 0 - 6
      [] self.twilight = "Nautical" -> 0 - 12
      [] self.twilight = "Astronomical" -> 0 - 18
      [] self.twilight = "None" -> 0

\* calculate_sun_altitude returns 0.1 for every input
calculate_sun_altitude(sun_pos, observer_pos) == <<1, 10>>

DaytimeInConstraintBatch(self, times, target_ras, rows) ==
    BatchOk([j \in 1..Len(target_ras) |-> [i \in 1..Len(times) |->
        LET sun_alt == calculate_sun_altitude(rows[i].sun, rows[i].pos)
            is_daytime == ~RatLeq(sun_alt, <<twilight_angle(self), 1>>)
            violated == IF self.allow_daytime THEN ~is_daytime
                        ELSE is_daytime
        IN  violated]])

(***************************************************************************)
(* MoonPhaseEvaluator (constraints/moon_phase.rs). Illuminations are in    *)
(* hundredths, Moon altitudes in tenths of a degree, distances in degrees. *)
(* The process-wide MOON_ALTITUDE_CACHE is passed in as cache and handed   *)
(* back with the value returned.                                           *)
(***************************************************************************)
\* a key that is fed every timestamp and every row
compute_cache_key_of_content(times, moon_positions, gcrs_full, gcrs_cols) ==
    [times |-> times, moon |-> moon_positions, gcrs |-> gcrs_full]

\* compute_cache_key: what the hasher is fed, the hash taken as one-to-one
compute_cache_key(times, moon_positions, gcrs_full, gcrs_cols) ==
    [times |-> IF times # <<>>
               THEN <<times[1] \div 1000, times[Len(times)] \div 1000,
                      Len(times)>>
               ELSE <<>>,
     moon |-> IF Len(moon_positions) > 1
              THEN <<moon_positions[1], moon_positions[Len(moon_positions)]>>
              ELSE IF Len(moon_positions) > 0 THEN <<moon_positions[1]>>
              ELSE <<>>,
     gcrs |-> IF Len(gcrs_full) > 1 /\ gcrs_cols >= 3
              THEN <<gcrs_full[1].pos, gcrs_full[Len(gcrs_full)].pos>>
              ELSE IF Len(gcrs_full) > 0 /\ gcrs_cols >= 3
              THEN <<gcrs_full[1].pos>>
              ELSE <<>>]

\* the altitudes the frame conversion and the refraction routine give for
\* the rows handed in
FreshMoonAltitudes(rows) == [k \in 1..Len(rows) |-> rows[k].moon_alt]

\* compute_moon_altitudes: the value returned and the cache afterwards
compute_moon_altitudes(cache, times, rows, gcrs_cols) ==
    IF gcrs_cols < 6
    THEN [tag |-> "err",
          msg |-> "GCRS data must contain position and velocity columns.",
          cache |-> cache]
    ELSE LET cache_key == compute_cache_key(times, Column(rows, "moon"), rows,
                                            gcrs_cols)
             hits == {e \in cache : e.key = cache_key}
         IN  IF hits # {}
             THEN [tag |-> "ok", altitudes |-> (CHOOSE e \in hits : TRUE).altitudes,
                   cache |-> cache]
             ELSE LET altitudes_vec == FreshMoonAltitudes(rows)
                  IN  [tag |-> "ok", altitudes |-> altitudes_vec,
                       cache |-> cache \cup {[key |-> cache_key,
                                              altitudes |-> altitudes_vec]}]

is_moon_visible(self, altitude) ==
    CASE self.moon_visibility = "full" -> altitude >= 0
      [] self.moon_visibility = "partial" -> altitude >= 0 - 5
      [] OTHER -> altitude >= 0

MoonPhaseName(self) ==
    <<"MoonPhaseConstraint", self.min_illumination, self.max_illumination,
      self.min_distance, self.max_distance, self.enforce_when_below_horizon,
      self.moon_visibility>>

\* (a - b).min(1.0) of two fractions given in hundredths
HundredthsMinOne(d) == IF d >= 100 THEN RatOne ELSE Rat(d, 100)

\* the sampling closure of evaluate: <<violated, severity>>; each test that
\* fails overwrites the severity of the one before
MoonPhaseSample(self, illumination, moon_altitude, moon_distance) ==
    IF ~self.enforce_when_below_horizon /\ ~is_moon_visible(self, moon_altitude)
    THEN <<FALSE, RatZero>>
    ELSE
    LET bright == illumination > self.max_illumination
        dim == IsSome(self.min_illumination)
               /\ illumination < Unwrap(self.min_illumination)
        close == IsSome(self.min_distance)
                 /\ moon_distance < Unwrap(self.min_distance)
        far == IsSome(self.max_distance)
               /\ moon_distance > Unwrap(self.max_distance)
    IN  <<bright \/ dim \/ close \/ far,
          IF far THEN MinWithOne(moon_distance - Unwrap(self.max_distance))
          ELSE IF close THEN MinWithOne(Unwrap(self.min_distance) - moon_distance)
          ELSE IF dim
          THEN HundredthsMinOne(Unwrap(self.min_illumination) - illumination)
          ELSE IF bright
          THEN HundredthsMinOne(illumination - self.max_illumination)
          ELSE RatOne>>

\* the description closure, given violated
MoonPhaseDescription(self, illumination, moon_altitude, moon_distance, violated) ==
    IF ~violated THEN <<"">>
    ELSE <<"Moon reasons", illumination, moon_altitude, moon_distance>>

\* MoonPhaseEvaluator::evaluate: the value returned and the cache afterwards
MoonPhaseEvaluate(self, cache, ephemeris, target_ra, target_dec, time_indices) ==
    IF ephemeris.gcrs_cols = 0
    THEN [value |-> Failed("No GCRS positions available"), cache |-> cache]
    ELSE
    LET data == extract_standard_ephemeris_data(ephemeris, time_indices)
        moon == compute_moon_altitudes(cache, data.times, data.rows,
                                       ephemeris.gcrs_cols)
    IN  IF moon.tag = "err"
        THEN [value |-> Failed(moon.msg), cache |-> moon.cache]
        ELSE
        LET violations == track_violations(data.times,
                [k \in 1..Len(data.times) |->
                    MoonPhaseSample(self, data.rows[k].illum, moon.altitudes[k],
                        AngularSeparation(target_ra, data.rows[k].moon))],
                [k \in 1..Len(data.times) |->
                    [mid |-> MoonPhaseDescription(self, data.rows[k].illum,
                                 moon.altitudes[k],
                                 AngularSeparation(target_ra, data.rows[k].moon),
                                 FALSE),
                     final |-> MoonPhaseDescription(self, data.rows[k].illum,
                                 moon.altitudes[k],
                                 AngularSeparation(target_ra, data.rows[k].moon),
                                 TRUE)]])
        IN  [value |-> ConstraintResultNew(violations, violations = <<>>,
                                           MoonPhaseName(self), data.times),
             cache |-> moon.cache]

\* MoonPhaseEvaluator::in_constraint_batch: entry [j][i] holds
\* target_violated; cos_angle > cos(min) is moon_distance < min
MoonPhaseInConstraintBatch(self, cache, ephemeris, target_ras, target_decs, time_indices) ==
    IF ephemeris.gcrs_cols = 0
    THEN [value |-> Failed("No GCRS positions available"), cache |-> cache]
    ELSE
    LET data == extract_standard_ephemeris_data(ephemeris, time_indices)
        moon == compute_moon_altitudes(cache, data.times, data.rows,
                                       ephemeris.gcrs_cols)
    IN  IF moon.tag = "err"
        THEN [value |-> Failed(moon.msg), cache |-> moon.cache]
        ELSE [value |-> BatchOk([j \in 1..Len(target_ras) |->
                 [i \in 1..Len(data.times) |->
                    LET illumination == data.rows[i].illum
                        moon_distance ==
                            AngularSeparation(target_ras[j], data.rows[i].moon)
                    IN  IF ~self.enforce_when_below_horizon
                           /\ ~is_moon_visible(self, moon.altitudes[i])
                        THEN FALSE
                        ELSE \/ illumination > self.max_illumination
                             \/ IsSome(self.min_illumination)
                                /\ illumination < Unwrap(self.min_illumination)
                             \/ IsSome(self.min_distance)
                                /\ moon_distance < Unwrap(self.min_distance)
                             \/ IsSome(self.max_distance)
                                /\ moon_distance > Unwrap(self.max_distance)]]),
              cache |-> moon.cache]

(***************************************************************************)
(* The OMM cache of fetch_omm_from_celestrak (utils/omm_utils.rs). A text  *)
(* is a sequence of tokens; a cache file is its content and its age, the   *)
(* seconds since it was modified.                                          *)
(***************************************************************************)
\* utils::config::OMM_CACHE_TTL, in seconds
OMM_CACHE_TTL == 2

Space == " "
NoGpText == "No GP data found"
OmmFields == "\"OBJECT_NAME\": .., \"EPOCH\": .., \"MEAN_MOTION\": .., .."

\* str::trim
Trim(content) ==
    LET kept == {k \in 1..Len(content) : content[k] # Space}
    IN  IF kept = {} THEN <<>>
        ELSE LET lo == CHOOSE k \in kept : \A j \in kept : k <= j
                 hi == CHOOSE k \in kept : \A j \in kept : k >= j
             IN  SubSeq(content, lo, hi)

\* serde_json::from_str: the JSON value of a text, None for a text that is
\* not JSON
JsonFromStr(content) ==
    CASE content = <<"[", "]">> -> Some([array |-> TRUE, first |-> None])
      [] content = <<"{", "}">> -> Some([array |-> FALSE, first |-> None])
      [] content = <<"[", "{", "}", "]">> ->
             Some([array |-> TRUE, first |-> Some({})])
      [] content = <<"[", "{", OmmFields, "}", "]">> ->
             Some([array |-> TRUE, first |-> Some({OmmFields})])
      [] OTHER -> None

\* parse_omm_json
parse_omm_json(content) ==
    LET json == JsonFromStr(Trim(content))
    IN  IF json = None THEN <<"Err", "JSON parse error">>
        ELSE IF ~Unwrap(json).array \/ Unwrap(json).first = None
        THEN <<"Err", "Invalid JSON format: expected array with object">>
        ELSE IF OmmFields \notin Unwrap(Unwrap(json).first)
        THEN <<"Err", "Missing field">>
        ELSE <<"Ok", Unwrap(Unwrap(json).first)>>

\* try_read_fresh_omm_cache: the content of a file that is there and not
\* older than ttl
try_read_fresh_omm_cache(file, ttl) ==
    IF IsSome(file) /\ Unwrap(file).age <= ttl
    THEN Some(Unwrap(file).content)
    ELSE None

\* save_omm_to_cache: writes the file, or leaves it as it is when the
\* directory or the file cannot be written
save_omm_to_cache(file, content, disk_ok) ==
    IF disk_ok THEN Some([content |-> content, age |-> 0]) ELSE file

\* fetch_omm_from_celestrak: the value returned, the cache file afterwards
\* and whether the answer came from the cache. response is what the server
\* sends: a transport failure, or a status and a body.
fetch_omm_from_celestrak(file, response, disk_ok) ==
    LET cached == try_read_fresh_omm_cache(file, OMM_CACHE_TTL)
    IN  IF IsSome(cached)
        THEN [value |-> parse_omm_json(Unwrap(cached)), file |-> file,
              from_cache |-> TRUE]
        ELSE IF ~response.sent
        THEN [value |-> <<"Err", "Failed to fetch OMM data from Celestrak">>,
              file |-> file, from_cache |-> FALSE]
        ELSE IF response.status # 200
        THEN [value |-> <<"Err", "Celestrak query failed with status">>,
              file |-> file, from_cache |-> FALSE]
        ELSE IF Trim(response.body) = <<>>
                \/ \E k \in 1..Len(response.body) : response.body[k] = NoGpText
        THEN [value |-> <<"Err", "No OMM data found for NORAD ID on Celestrak">>,
              file |-> file, from_cache |-> FALSE]
        ELSE [value |-> parse_omm_json(response.body),
              file |-> save_omm_to_cache(file, response.body, disk_ok),
              from_cache |-> FALSE]

(***************************************************************************)
(* State.                                                                  *)
(***************************************************************************)
VARIABLES
    eph,      \* the ephemeris: times, rows, gcrs_cols, has_latlon (lat, lon)
    call,     \* the arguments of the evaluation call, NoCall before it
    result,   \* what evaluate returned
    batch,    \* what in_constraint_batch returned
    out,      \* what the most recent derived query on result returned
    moon_altitude_cache,  \* MOON_ALTITUDE_CACHE: the set of its entries
    omm_cache \* the OMM cache file of one NORAD id: None, or Some(file)

vars == <<eph, call, result, batch, out, moon_altitude_cache, omm_cache>>

NoCall == [op |-> "none"]
NoBatch == [tag |-> "none"]
NoOut == [q |-> "none"]

\* the ephemeris of the rows r, sampled every second from the instant b
Ephemeris(b, r, gcrs_cols, has_latlon) ==
    [times |-> generate_timestamps(b, b + (Len(r) - 1) * MicrosPerSecond, 1).times,
     rows |-> r, gcrs_cols |-> gcrs_cols, has_latlon |-> has_latlon]

EphemeridesOf(begins, rows, gcrs_cols, has_latlon) ==
    { Ephemeris(b, r, gcrs_cols, has_latlon) :
        <<b, r>> \in begins \X UNION {RowSeqs(rows, n) : n \in 1..MaxN} }

\* get_latitude_deg and get_longitude_deg both return Some
WithLatLon == [lat |-> TRUE, lon |-> TRUE]

\* ephemerides for the proximity evaluators
ProximityEphemerides ==
    EphemeridesOf({FractionalBegin}, ProximityRows, 6, WithLatLon)
    \cup {ScenarioEphemeris, TrackerEphemeris}

\* ephemerides for the evaluators of constraints/*.rs: with all the data,
\* with positions only, and with neither GCRS nor latitude and longitude
FullEphemerides ==
    EphemeridesOf({FractionalBegin}, {DefaultRow, ShadowedRow, PenumbraRow}, 6,
                  WithLatLon)

\* an ephemeris without GCRS data supplies the latitude, the longitude,
\* both or neither
PartialEphemerides ==
    EphemeridesOf({FractionalBegin}, {DefaultRow, ShadowedRow}, 3, WithLatLon)
    \cup UNION { EphemeridesOf({FractionalBegin}, {DefaultRow, ShadowedRow}, 0, a) :
                    a \in [lat : BOOLEAN, lon : BOOLEAN] \ {WithLatLon} }

\* ephemerides for the derived queries
QueryEphemerides ==
    EphemeridesOf(Begins, {DefaultRow, NearSunRow}, 6, WithLatLon)
    \cup {ScenarioEphemeris}

Fresh ==
    /\ call = NoCall
    /\ result = NoResult
    /\ batch = NoBatch
    /\ out = NoOut
    /\ moon_altitude_cache = {}
    /\ omm_cache = None

N == Len(eph.times)

\* rows lo .. hi-1 of an array, as the caller of the slice-based evaluators
\* of constraints.rs passes them
Slice(s, lo, hi) == SubSeq(s, lo + 1, hi)

ProximityConfigs ==
    [min_angle : {20}, max_angle : {None, Some(160)}]

TargetRas == {0}

\* evaluate of the Sun, Moon and body proximity evaluators on the first hi
\* rows of the ephemeris
EvaluateProximity ==
    \E kind \in {"SunProximity", "MoonProximity", "BodyProximity"},
       cfg \in ProximityConfigs, target_ra \in TargetRas, hi \in 0..N :
        /\ call = NoCall
        /\ LET times == Slice(eph.times, 0, hi)
               rows == Slice(eph.rows, 0, hi)
           IN  result' =
                 CASE kind = "SunProximity" ->
                        SunProximityEvaluate(cfg, times, target_ra, Column(rows, "sun"))
                   [] kind = "MoonProximity" ->
                        MoonProximityEvaluate(cfg, times, target_ra, Column(rows, "moon"))
                   [] kind = "BodyProximity" ->
                        BodyProximityEvaluate(cfg, times, target_ra, Column(rows, "sun"))
        /\ call' = [op |-> kind, cfg |-> cfg, target_ra |-> target_ra,
                    lo |-> 0, hi |-> hi]
        /\ UNCHANGED <<eph, batch, out, moon_altitude_cache, omm_cache>>

EarthLimbConfigs == [min_angle : {10}, max_angle : {None, Some(160)}]

\* targets towards the centre of the Earth, at right angles to it and away
\* from it, as seen from an observer on the x axis
EarthLimbTargets ==
    {[ra |-> 180, dec |-> 0], [ra |-> 0, dec |-> 90], [ra |-> 0, dec |-> 0]}

\* evaluate of the Earth limb evaluator on the first hi rows
EvaluateEarthLimb ==
    \E cfg \in EarthLimbConfigs, target \in EarthLimbTargets, hi \in 0..N :
        /\ call = NoCall
        /\ result' = EarthLimbEvaluate(cfg, Slice(eph.times, 0, hi),
                          target.ra, target.dec,
                          Column(Slice(eph.rows, 0, hi), "pos"))
        /\ call' = [op |-> "EarthLimb", cfg |-> cfg, target |-> target,
                    lo |-> 0, hi |-> hi]
        /\ UNCHANGED <<eph, batch, out, moon_altitude_cache, omm_cache>>

\* the sequence of the members of a set of numbers in increasing order
RECURSIVE Ascending(_)
Ascending(S) ==
    IF S = {} THEN <<>>
    ELSE LET m == CHOOSE x \in S : \A y \in S : x <= y
         IN  <<m>> \o Ascending(S \ {m})

\* the time_indices a caller passes: none, or row indices in increasing
\* order
TimeIndices == {None} \cup {Some(Ascending(S)) : S \in SUBSET (0..(N - 1))}

\* the targets of a batch call: none, two, and lists of unequal lengths
TargetLists ==
    { [ras |-> <<>>, decs |-> <<>>],
      [ras |-> <<0, 0>>, decs |-> <<90, 0>>],
      [ras |-> <<0>>, decs |-> <<>>] }

\* the targets of an evaluate call: along the z axis and along the x axis
Targets == {[ra |-> 0, dec |-> 90], [ra |-> 0, dec |-> 0]}

EclipseConfigs == [umbra_only : BOOLEAN]

OrbitPoleConfigs == [min_angle_deg : {30}, max_angle_deg : {None, Some(60)}]

\* the square of the SAA scenario
Square == <<<<0, 0>>, <<10, 0>>, <<10, 10>>, <<0, 10>>>>

\* SAAConfig values: the square, and polygons of fewer than three vertices
SAAConfigs ==
    [polygon : {Square, <<>>, <<<<0, 0>>>>, <<<<0, 0>>, <<10, 10>>>>}]

AltAzConfigs ==
    [min_altitude : {30, 60}, max_altitude : {None}, min_azimuth : {None},
     max_azimuth : {None}]

DaytimeConfigs == [allow_daytime : BOOLEAN, twilight : {"None"}]

EvaluateReturns(op, cfg, target, time_indices, value) ==
    /\ call = NoCall
    /\ call' = [op |-> op, cfg |-> cfg, target |-> target,
                time_indices |-> time_indices]
    /\ result' = value
    /\ UNCHANGED <<eph, batch, out, moon_altitude_cache, omm_cache>>

BatchReturns(op, cfg, targets, time_indices, value) ==
    /\ call = NoCall
    /\ call' = [op |-> op, cfg |-> cfg, targets |-> targets,
                time_indices |-> time_indices]
    /\ batch' = value
    /\ UNCHANGED <<eph, result, out, moon_altitude_cache, omm_cache>>

\* the eclipse, altitude/azimuth and daytime evaluators are called on
\* ephemerides that hold observer positions
HasPositions == eph.gcrs_cols >= 3

EvaluateEclipse ==
    \E cfg \in EclipseConfigs, target \in Targets, time_indices \in TimeIndices :
        HasPositions /\ EvaluateReturns("Eclipse", cfg, target, time_indices,
            EclipseEvaluate(cfg, eph, target.ra, target.dec, time_indices))

EvaluateOrbitPole ==
    \E cfg \in OrbitPoleConfigs, target \in Targets, time_indices \in TimeIndices :
        EvaluateReturns("OrbitPole", cfg, target, time_indices,
            OrbitPoleEvaluate(cfg, eph, target.ra, target.dec, time_indices))

EvaluateSAA ==
    \E cfg \in SAAConfigs, target \in Targets, time_indices \in TimeIndices :
        EvaluateReturns("SAA", cfg, target, time_indices,
            SAAEvaluate(SAAToEvaluator(cfg), eph, target.ra, target.dec,
                        time_indices))

BatchEclipse ==
    \E cfg \in EclipseConfigs, targets \in TargetLists, time_indices \in TimeIndices :
        HasPositions /\ BatchReturns("Eclipse", cfg, targets, time_indices,
            EclipseInConstraintBatch(cfg, eph, targets.ras, targets.decs,
                                     time_indices))

BatchOrbitPole ==
    \E cfg \in OrbitPoleConfigs, targets \in TargetLists, time_indices \in TimeIndices :
        BatchReturns("OrbitPole", cfg, targets, time_indices,
            OrbitPoleInConstraintBatch(cfg, eph, targets.ras, targets.decs,
                                       time_indices))

BatchSAA ==
    \E cfg \in SAAConfigs, targets \in TargetLists, time_indices \in TimeIndices :
        BatchReturns("SAA", cfg, targets, time_indices,
            SAAInConstraintBatch(SAAToEvaluator(cfg), eph, targets.ras, targets.decs,
                                 time_indices))

BatchAltAz ==
    \E cfg \in AltAzConfigs, targets \in TargetLists, time_indices \in TimeIndices :
        HasPositions /\ BatchReturns("AltAz", cfg, targets, time_indices,
            AltAzInConstraintBatch(cfg, eph, targets.ras, targets.decs,
                                   time_indices))

\* the caller passes the arrays of the whole ephemeris
BatchDaytime ==
    \E cfg \in DaytimeConfigs, targets \in TargetLists :
        HasPositions /\ BatchReturns("Daytime", cfg, targets, None,
            DaytimeInConstraintBatch(cfg, eph.times, targets.ras, eph.rows))

\* the derived queries apply to a ConstraintResult of constraints.rs
HasTextResult == result.tag = "ok" /\ call.op \in
    {"SunProximity", "MoonProximity", "BodyProximity"}

\* a duration query that consumes the windows it sums
TotalViolationDurationDraining ==
    /\ HasTextResult
    /\ out' = [q |-> "total_violation_duration",
               value |-> total_violation_duration(result)]
    /\ result' = [result EXCEPT !.violations = <<>>]
    /\ UNCHANGED <<eph, call, batch, moon_altitude_cache, omm_cache>>

TotalViolationDuration ==
    /\ HasTextResult
    /\ out' = [q |-> "total_violation_duration",
               value |-> total_violation_duration(result)]
    /\ UNCHANGED <<eph, call, result, batch, moon_altitude_cache, omm_cache>>

ConstraintArray ==
    /\ HasTextResult
    /\ out' = [q |-> "constraint_array", value |-> constraint_array(result)]
    /\ UNCHANGED <<eph, call, result, batch, moon_altitude_cache, omm_cache>>

\* the instants a caller asks about: those of the ephemeris
QueryInstants == {eph.times[k] : k \in 1..N}

\* the arguments of in_constraint: the RFC 3339 text of an instant, or a
\* Python datetime of it, timezone-aware (UTC) or naive
QueryTimes ==
    {[type |-> "str", text |-> to_rfc3339(t), us |-> t, aware |-> TRUE] :
        t \in QueryInstants}
    \cup [type : {"datetime"}, text : {<<>>}, us : QueryInstants, aware : BOOLEAN]

InConstraint ==
    \E time \in QueryTimes :
        /\ HasTextResult
        /\ out' = [q |-> "in_constraint", time |-> time,
                   value |-> in_constraint(result, time)]
        /\ UNCHANGED <<eph, call, result, batch, moon_altitude_cache, omm_cache>>

(***************************************************************************)
(* Serialization of the configurations (serde derive, to_json). A field    *)
(* is "required", "optional" (Option with skip_serializing_if =            *)
(* Option::is_none) or "default" (serde(default)). The wire is the         *)
(* sequence of the members <<key, value>> of the JSON object, in the order *)
(* of the struct's fields.                                                 *)
(***************************************************************************)
Field(name, kind, default) == [name |-> name, kind |-> kind, default |-> default]

SunProximityFields ==
    << Field("min_angle", "required", 0),
       Field("max_angle", "optional", 0) >>

AltAzFields ==
    << Field("min_altitude", "required", 0),
       Field("max_altitude", "optional", 0),
       Field("min_azimuth", "optional", 0),
       Field("max_azimuth", "optional", 0) >>

MoonPhaseFields ==
    << Field("max_illumination", "required", 0),
       Field("min_illumination", "optional", 0),
       Field("min_distance", "optional", 0),
       Field("max_distance", "optional", 0),
       Field("enforce_when_below_horizon", "default", FALSE),
       Field("moon_visibility", "default", "full") >>

FieldsOf(type) ==
    CASE type = "SunProximityConfig" -> SunProximityFields
      [] type = "AltAzConfig" -> AltAzFields
      [] type = "MoonPhaseConfig" -> MoonPhaseFields

\* Serialize: the members of the fields in order, an optional field that is
\* None left out
RECURSIVE SerializeFields(_, _, _)
SerializeFields(fields, config, k) ==
    IF k > Len(fields) THEN <<>>
    ELSE LET f == fields[k]
             rest == SerializeFields(fields, config, k + 1)
         IN  IF f.kind = "optional"
             THEN IF config[f.name] = None THEN rest
                  ELSE <<<<f.name, Unwrap(config[f.name])>>>> \o rest
             ELSE <<<<f.name, config[f.name]>>>> \o rest

to_json(type, config) == SerializeFields(FieldsOf(type), config, 1)

HasKey(wire, key) == \E m \in 1..Len(wire) : wire[m][1] = key
ValueOf(wire, key) == wire[CHOOSE m \in 1..Len(wire) : wire[m][1] = key][2]

\* a Deserialize that fills a missing optional field with Some(default)
from_json_defaulting(type, wire) ==
    LET fields == FieldsOf(type)
        names == {fields[k].name : k \in 1..Len(fields)}
        field(n) == fields[CHOOSE k \in 1..Len(fields) : fields[k].name = n]
    IN  <<"Ok", [n \in names |->
                   IF HasKey(wire, n)
                   THEN IF field(n).kind = "optional"
                        THEN Some(ValueOf(wire, n)) ELSE ValueOf(wire, n)
                   ELSE IF field(n).kind = "optional"
                        THEN Some(field(n).default) ELSE field(n).default]>>

\* Deserialize: a missing required field is an error, a missing optional
\* field is None, a missing default field takes its default
from_json(type, wire) ==
    LET fields == FieldsOf(type)
        names == {fields[k].name : k \in 1..Len(fields)}
        field(n) == fields[CHOOSE k \in 1..Len(fields) : fields[k].name = n]
    IN  IF \E n \in names : field(n).kind = "required" /\ ~HasKey(wire, n)
        THEN <<"Err", "missing field">>
        ELSE <<"Ok", [n \in names |->
                       IF HasKey(wire, n)
                       THEN IF field(n).kind = "optional"
                            THEN Some(ValueOf(wire, n)) ELSE ValueOf(wire, n)
                       ELSE IF field(n).kind = "optional"
                            THEN None ELSE field(n).default]>>

ConfigTypes == {"SunProximityConfig", "AltAzConfig", "MoonPhaseConfig"}

\* configurations: every optional field absent, or present with a value
\* that may be zero
ConfigsOf(type) ==
    CASE type = "SunProximityConfig" ->
            [min_angle : {20, 45}, max_angle : {None, Some(0), Some(160)}]
      [] type = "AltAzConfig" ->
            [min_altitude : {0, 30}, max_altitude : {None, Some(0), Some(80)},
             min_azimuth : {None, Some(0)}, max_azimuth : {None, Some(270)}]
      [] type = "MoonPhaseConfig" ->
            [max_illumination : {1}, min_illumination : {None, Some(0)},
             min_distance : {None, Some(30)}, max_distance : {None, Some(0)},
             enforce_when_below_horizon : BOOLEAN,
             moon_visibility : {"full", "partial"}]

\* to_json of a configuration, then deserialization of its output
RoundTrip ==
    \E type \in ConfigTypes : \E config \in ConfigsOf(type) :
        /\ call = NoCall
        /\ call' = [op |-> "to_json", type |-> type, config |-> config]
        /\ out' = [q |-> "from_json", wire |-> to_json(type, config),
                   value |-> from_json(type, to_json(type, config))]
        /\ UNCHANGED <<eph, result, batch, moon_altitude_cache, omm_cache>>

(***************************************************************************)
(* AirmassEvaluator::altitude_to_airmass (constraints/airmass.rs) in fixed *)
(* point: altitudes in hundredths of a degree, angles and sines in         *)
(* millionths, airmass in thousandths or infinite.                         *)
(***************************************************************************)
\* the altitudes the function is called on
Altitudes ==
    {0 - 500, 0, 1, 100, 500, 900, 990, 1000, 1001,
     1010, 1100, 1500, 2000, 3000, 4500, 6000, 8000, 9000}

\* altitude_deg.to_radians(): 174.5329 millionths of a radian for every
\* hundredth of a degree
ToRadians(altitude) == altitude * 174 + (altitude * 5329) \div 10000

\* alt_rad.sin() at the altitudes above
SinOf(altitude) ==
    CASE altitude = 0 - 500 -> 0 - 87156
      [] altitude = 0 -> 0
      [] altitude = 1 -> 175
      [] altitude = 100 -> 17452
      [] altitude = 500 -> 87156
      [] altitude = 900 -> 156434
      [] altitude = 990 -> 171929
      [] altitude = 1000 -> 173648
      [] altitude = 1001 -> 173820
      [] altitude = 1010 -> 175367
      [] altitude = 1100 -> 190809
      [] altitude = 1500 -> 258819
      [] altitude = 2000 -> 342020
      [] altitude = 3000 -> 500000
      [] altitude = 4500 -> 707107
      [] altitude = 6000 -> 866025
      [] altitude = 8000 -> 984808
      [] altitude = 9000 -> 1000000

Infinite == [inf |-> TRUE, milli |-> 0]
Finite(milli) == [inf |-> FALSE, milli |-> milli]

\* 1.0 / x for x in millionths
Reciprocal(x) == Finite((1000 * 1000 * 1000) \div x)

altitude_to_airmass(altitude) ==
    LET alt_rad == ToRadians(altitude)
    IN  IF alt_rad <= 0 THEN Infinite
        ELSE IF alt_rad < 174533
        THEN LET squared == ((alt_rad \div 100) * (alt_rad \div 100)) \div 100
                 \* 0.025 * ln(exp(alt_rad + 0.15 * alt_rad^2))
                 correction == (alt_rad + (15 * squared) \div 100) \div 40
             IN  Reciprocal(SinOf(altitude) + correction)
        ELSE Reciprocal(SinOf(altitude))

\* f64::min(1.0) of a number of thousandths
ThousandthsMinOne(x) == IF x >= 1000 THEN RatOne ELSE Rat(x, 1000)

\* a sampling closure that takes the severity of the minimum whenever a
\* minimum is set
AirmassSampleUnguarded(self, airmass) ==
    LET over == airmass.inf \/ airmass.milli > self.max_airmass
        under == IsSome(self.min_airmass) /\ ~airmass.inf
                 /\ airmass.milli < Unwrap(self.min_airmass)
    IN  <<over \/ under,
          IF IsSome(self.min_airmass) /\ ~airmass.inf
          THEN ThousandthsMinOne(Unwrap(self.min_airmass) - airmass.milli)
          ELSE RatOne>>

\* the sampling closure of AirmassEvaluator::evaluate, given the airmass of
\* the sample in thousandths; the later assignment to severity wins
AirmassSample(self, airmass) ==
    LET over == airmass.inf \/ airmass.milli > self.max_airmass
        under == IsSome(self.min_airmass) /\ ~airmass.inf
                 /\ airmass.milli < Unwrap(self.min_airmass)
    IN  <<over \/ under,
          IF under
          THEN ThousandthsMinOne(Unwrap(self.min_airmass) - airmass.milli)
          ELSE IF over
          THEN IF airmass.inf THEN RatOne
               ELSE ThousandthsMinOne(airmass.milli - self.max_airmass)
          ELSE RatOne>>

\* one call of altitude_to_airmass
AltitudeToAirmass ==
    \E altitude \in Altitudes :
        /\ call = NoCall
        /\ call' = [op |-> "altitude_to_airmass", altitude |-> altitude]
        /\ out' = [q |-> "airmass", value |-> altitude_to_airmass(altitude)]
        /\ UNCHANGED <<eph, result, batch, moon_altitude_cache, omm_cache>>

\* simple polygons: the square, a triangle and an L-shaped hexagon
Polygons ==
    { Square,
      <<<<0, 0>>, <<10, 0>>, <<0, 10>>>>,
      <<<<0, 0>>, <<10, 0>>, <<10, 4>>, <<4, 4>>, <<4, 10>>, <<0, 10>>>> }

\* longitudes and latitudes of the sample of evaluate_with_latlon
Coordinates == {0 - 5, 0, 2, 5, 7, 10, 20}

\* evaluate_with_latlon on arrays of one sample
EvaluateWithLatLon ==
    \E polygon \in Polygons, lon \in Coordinates, lat \in Coordinates :
        /\ call = NoCall
        /\ call' = [op |-> "evaluate_with_latlon", polygon |-> polygon,
                    lon |-> lon, lat |-> lat]
        /\ result' = evaluate_with_latlon(SAAToEvaluator([polygon |-> polygon]),
                          <<eph.times[1]>>, <<lat>>, <<lon>>)
        /\ UNCHANGED <<eph, batch, out, moon_altitude_cache, omm_cache>>

(***************************************************************************)
(* shadow_geometry and shadow_status of constraints/eclipse.rs on          *)
(* positions along the coordinate axes. Lengths are whole numbers of a     *)
(* unit of 1/21600 of the Earth's radius; the Sun's radius is 109 Earth    *)
(* radii. a * b / c is computed with the ratio b / c in lowest terms.      *)
(***************************************************************************)
\* utils::config::EARTH_RADIUS_KM and SUN_RADIUS_KM in the unit of length
EARTH_RADIUS_KM == 21600
SUN_RADIUS_KM == 2354400

\* a * (b / c)
Scaled(a, b, c) == LET f == Rat(b, c) IN (a * f[1]) \div f[2]

\* None, or Some(<<dist_to_axis, umbra_radius, penumbra_radius>>)
shadow_geometry(obs_pos, sun_pos) ==
    LET sun_dist == vector_magnitude(sun_pos)
    IN  IF sun_dist <= 0 THEN None
        ELSE
        LET sun_unit == <<sun_pos[1] \div sun_dist, sun_pos[2] \div sun_dist,
                          sun_pos[3] \div sun_dist>>
            dot == obs_pos[1] * sun_unit[1] + obs_pos[2] * sun_unit[2]
                   + obs_pos[3] * sun_unit[3]
        IN  IF dot >= 0 THEN None
            ELSE
            LET s == 0 - dot
                perp == <<obs_pos[1] - sun_unit[1] * dot,
                          obs_pos[2] - sun_unit[2] * dot,
                          obs_pos[3] - sun_unit[3] * dot>>
                dist_to_axis == vector_magnitude(perp)
                l_umbra == Scaled(EARTH_RADIUS_KM, sun_dist,
                                  SUN_RADIUS_KM - EARTH_RADIUS_KM)
                l_penumbra == Scaled(EARTH_RADIUS_KM, sun_dist,
                                     SUN_RADIUS_KM + EARTH_RADIUS_KM)
                umbra_radius ==
                    IF s <= l_umbra
                    THEN EARTH_RADIUS_KM - Scaled(EARTH_RADIUS_KM, s, l_umbra)
                    ELSE 0
                penumbra_radius ==
                    EARTH_RADIUS_KM + Scaled(EARTH_RADIUS_KM, s, l_penumbra)
            IN  Some(<<dist_to_axis, umbra_radius, penumbra_radius>>)

\* the Sun 23760 Earth radii away along the x axis, on either side, and a
\* Sun position of length zero
AU_TO_KM == 513216000
SunPositions == {<<AU_TO_KM, 0, 0>>, <<0 - AU_TO_KM, 0, 0>>, <<0, 0, 0>>}

\* x coordinates of the observer: 1.1 and 2.2 Earth radii from the centre
\* on either side, in the plane of the terminator, and twice the length of
\* the umbra away
AxialPositions == {0 - 9504000, 0 - 47520, 0 - 23760, 0, 23760, 9504000}

\* distances of the observer from the x axis: on the axis, inside the
\* umbra, between the radii, outside both cones; or the midpoint of the
\* radii found for the point of the axis
PerpDistances ==
    {[midpoint |-> FALSE, d |-> d] : d \in {0, 10000, 21600, 21700, 70000}}
    \cup {[midpoint |-> TRUE, d |-> 0]}

\* shadow_status of an observer at (x, d, 0), as the tests of eclipse.rs
\* place it
ShadowStatus ==
    \E self \in [umbra_only : BOOLEAN], sun_pos \in SunPositions,
       x \in AxialPositions, perp \in PerpDistances :
        LET on_axis == shadow_geometry(<<x, 0, 0>>, sun_pos)
            d == IF ~perp.midpoint THEN perp.d
                 ELSE IF IsSome(on_axis)
                 THEN (Unwrap(on_axis)[2] + Unwrap(on_axis)[3]) \div 2
                 ELSE EARTH_RADIUS_KM
            obs_pos == <<x, d, 0>>
            geometry == shadow_geometry(obs_pos, sun_pos)
        IN  /\ call = NoCall
            /\ call' = [op |-> "shadow_status", cfg |-> self,
                        obs_pos |-> obs_pos, sun_pos |-> sun_pos,
                        midpoint |-> perp.midpoint]
            /\ out' = [q |-> "shadow_status", geometry |-> geometry,
                       status |-> shadow_status(self, geometry)]
            /\ UNCHANGED <<eph, result, batch, moon_altitude_cache, omm_cache>>

(***************************************************************************)
(* The altitude and azimuth rule: calculate_alt_az gives 45 degrees of     *)
(* altitude and 180 degrees of azimuth, the bounds of the configuration    *)
(* lie on either side of them, the azimuth bounds in either order.         *)
(***************************************************************************)
AzimuthConfigs ==
    [min_altitude : {30, 60}, max_altitude : {None, Some(40)},
     min_azimuth : {None, Some(90), Some(170), Some(200), Some(330)},
     max_azimuth : {None, Some(10), Some(30), Some(100), Some(270)}]

\* the rows asked of the ten-sample ephemeris
AzimuthTimeIndices == {None, Some(<<>>), Some(<<0>>), Some(<<2, 7>>)}

AzimuthTarget == [ra |-> 0, dec |-> 0]

EvaluateAltAz ==
    \E cfg \in AzimuthConfigs, time_indices \in AzimuthTimeIndices :
        EvaluateReturns("AltAz", cfg, AzimuthTarget, time_indices,
            AltAzEvaluate(cfg, eph, AzimuthTarget.ra, AzimuthTarget.dec,
                          time_indices))

BatchAltAzRange ==
    \E cfg \in AzimuthConfigs, time_indices \in AzimuthTimeIndices :
        BatchReturns("AltAz", cfg, [ras |-> <<0, 0>>, decs |-> <<0, 90>>],
            time_indices,
            AltAzInConstraintBatch(cfg, eph, <<0, 0>>, <<0, 90>>, time_indices))

(***************************************************************************)
(* Spec: one evaluate call of a proximity evaluator or of the eclipse      *)
(* evaluator.                                                              *)
(***************************************************************************)
Init == eph \in ProximityEphemerides \cup FullEphemerides /\ Fresh

Next ==
    \/ EvaluateProximity
    \/ EvaluateEarthLimb
    \/ EvaluateEclipse

Spec == Init /\ [][Next]_vars

(***************************************************************************)
(* SpecEphemeris: one evaluate or in_constraint_batch call of an evaluator *)
(* of constraints/*.rs.                                                    *)
(***************************************************************************)
InitEphemeris == eph \in FullEphemerides \cup PartialEphemerides /\ Fresh

NextEphemeris ==
    \/ EvaluateEclipse
    \/ EvaluateOrbitPole
    \/ EvaluateSAA
    \/ BatchEclipse
    \/ BatchOrbitPole
    \/ BatchSAA
    \/ BatchAltAz
    \/ BatchDaytime

SpecEphemeris == InitEphemeris /\ [][NextEphemeris]_vars

(***************************************************************************)
(* SpecQuery: one evaluate call of a proximity evaluator, then any number  *)
(* of derived queries on its result.                                       *)
(***************************************************************************)
InitQuery == eph \in QueryEphemerides /\ Fresh

NextQuery ==
    \/ EvaluateProximity
    \/ TotalViolationDuration
    \/ ConstraintArray
    \/ InConstraint

SpecQuery == InitQuery /\ [][NextQuery]_vars

\* thresholds of the proximity and Earth limb evaluators, zero included; a
\* severity divided by a zero threshold is +infinity, the fraction <<1, 0>>
SeverityAngleConfigs == [min_angle : {0, 20}, max_angle : {None, Some(0), Some(160)}]

\* the body and Earth limb evaluators divide by max(threshold, 1e-9): their
\* thresholds are taken of one degree and more
SeverityConfigsOf(kind) ==
    IF kind \in {"SunProximity", "MoonProximity"} THEN SeverityAngleConfigs
    ELSE {cfg \in SeverityAngleConfigs : cfg.max_angle # Some(0)}

SeverityAngles == {0, 10, 20, 90, 160, 170, 180}

AirmassConfigs == [max_airmass : {1500, 3000}, min_airmass : {None, Some(1200), Some(4000)}]

SeverityAltAzConfigs ==
    [min_altitude : {30}, max_altitude : {None, Some(60)},
     min_azimuth : {None, Some(90), Some(330)},
     max_azimuth : {None, Some(30), Some(270)}]

SeverityMoonConfigs ==
    [max_illumination : {30}, min_illumination : {None, Some(10)},
     min_distance : {None, Some(20)}, max_distance : {None, Some(120)},
     enforce_when_below_horizon : {TRUE}, moon_visibility : {"full"}]

\* the (violated, severity) pair that the scan of an evaluator computes for
\* one sample
SampleViolation ==
    /\ call = NoCall
    /\ \/ \E kind \in {"SunProximity", "MoonProximity", "BodyProximity"} :
          \E cfg \in SeverityConfigsOf(kind), angle_deg \in SeverityAngles :
              /\ call' = [op |-> "sample", kind |-> kind, cfg |-> cfg,
                          input |-> <<angle_deg>>]
              /\ out' = [q |-> "sample",
                         violated |->
                           CASE kind = "SunProximity" -> SunIsViolated(cfg, angle_deg)
                             [] kind = "MoonProximity" -> MoonIsViolated(cfg, angle_deg)
                             [] OTHER -> BodyIsViolation(cfg, angle_deg),
                         severity |->
                           CASE kind = "SunProximity" -> SunSeverity(cfg, angle_deg)
                             [] kind = "MoonProximity" -> MoonSeverity(cfg, angle_deg)
                             [] OTHER -> BodySeverity(cfg, angle_deg)]
       \/ \E cfg \in SeverityConfigsOf("EarthLimb"), angle_deg \in SeverityAngles,
             i \in {1} :
              LET threshold_deg == EarthLimbThreshold(cfg, eph.rows[i].pos)
              IN  /\ call' = [op |-> "sample", kind |-> "EarthLimb", cfg |-> cfg,
                              input |-> <<angle_deg, threshold_deg>>]
                  /\ out' = [q |-> "sample",
                             violated |-> EarthLimbIsViolation(cfg, angle_deg,
                                                               threshold_deg),
                             severity |-> EarthLimbSeverity(cfg, angle_deg,
                                                            threshold_deg)]
       \/ \E self \in AirmassConfigs, altitude \in Altitudes :
              LET s == AirmassSample(self, altitude_to_airmass(altitude))
              IN  /\ call' = [op |-> "sample", kind |-> "Airmass", cfg |-> self,
                              input |-> <<altitude>>]
                  /\ out' = [q |-> "sample", violated |-> s[1], severity |-> s[2]]
       \/ \E self \in SeverityAltAzConfigs, altitude_deg \in {0, 29, 45, 61, 90},
             azimuth_deg \in {0, 5, 95, 180, 300, 359} :
              LET s == AltAzSample(self, altitude_deg, azimuth_deg)
              IN  /\ call' = [op |-> "sample", kind |-> "AltAz", cfg |-> self,
                              input |-> <<altitude_deg, azimuth_deg>>]
                  /\ out' = [q |-> "sample", violated |-> s[1], severity |-> s[2]]
       \/ \E self \in SeverityMoonConfigs, illumination \in {0, 5, 20, 31, 100},
             moon_distance \in {0, 19, 90, 121, 180} :
              LET s == MoonPhaseSample(self, illumination, 300, moon_distance)
              IN  /\ call' = [op |-> "sample", kind |-> "MoonPhase", cfg |-> self,
                              input |-> <<illumination, moon_distance>>]
                  /\ out' = [q |-> "sample", violated |-> s[1], severity |-> s[2]]
       \/ \E self \in OrbitPoleConfigs, target_ra \in {0, 90},
             target_dec \in {0 - 90, 0, 60, 90} :
              LET s == OrbitPoleSample(self, eph, target_ra, target_dec, 0)
              IN  /\ call' = [op |-> "sample", kind |-> "OrbitPole", cfg |-> self,
                              input |-> <<target_ra, target_dec>>]
                  /\ out' = [q |-> "sample", violated |-> s[1], severity |-> s[2]]
    /\ UNCHANGED <<eph, result, batch, moon_altitude_cache, omm_cache>>

\* the arguments of generate_timestamps: ranges of 0 to 13 minutes that
\* begin on a whole second or half a second after it, and steps from -1
\* second to i64::MAX seconds
TimestampBegins == {0, 500 * 1000, 60 * MicrosPerSecond}

TimestampEnds ==
    {0, 1400 * 1000, 59 * MicrosPerSecond, 60 * MicrosPerSecond,
     659 * MicrosPerSecond, 660 * MicrosPerSecond, 720 * MicrosPerSecond,
     780 * MicrosPerSecond}

StepSizes ==
    {0 - 1, 0, 1, 7, 60, 2000, 3000, I64_MAX \div 1000, I64_MAX \div 1000 + 1,
     I64_MAX - 1, I64_MAX}

\* one call of generate_timestamps
GenerateTimestamps ==
    \E begin_dt \in TimestampBegins, end_dt \in TimestampEnds,
       step_size \in StepSizes :
        /\ call = NoCall
        /\ call' = [op |-> "generate_timestamps", begin |-> begin_dt,
                    end |-> end_dt, step_size |-> step_size]
        /\ out' = [q |-> "timestamps",
                   value |-> generate_timestamps(begin_dt, end_dt, step_size)]
        /\ UNCHANGED <<eph, result, batch, moon_altitude_cache, omm_cache>>

(***************************************************************************)
(* SpecFunctions: one call of a function that takes its arrays or numbers  *)
(* from the caller.                                                        *)
(***************************************************************************)
InitFunctions == eph \in {ScenarioEphemeris} /\ Fresh

NextFunctions ==
    \/ EvaluateWithLatLon
    \/ RoundTrip
    \/ AltitudeToAirmass
    \/ ShadowStatus
    \/ EvaluateAltAz
    \/ BatchAltAzRange
    \/ SampleViolation
    \/ GenerateTimestamps

SpecFunctions == InitFunctions /\ [][NextFunctions]_vars

(***************************************************************************)
(* SpecMoon: any number of calls of the Moon phase evaluator on one        *)
(* ephemeris, in one process.                                              *)
(***************************************************************************)
\* four one-minute samples across moonset: the Moon is 30 and 0.5 degrees
\* above the horizon, then 0.3 and 10 degrees below it; it is half lit
\* (a fifth in row 0) and 90 degrees from the target, but for row 2, where
\* it is 10 degrees away
MoonRows ==
    <<[DefaultRow EXCEPT !.moon_alt = 300, !.illum = 20],
      [DefaultRow EXCEPT !.moon_alt = 5],
      [DefaultRow EXCEPT !.moon_alt = 0 - 3, !.moon = 10],
      [DefaultRow EXCEPT !.moon_alt = 0 - 100]>>

\* with positions and velocities, with positions only, without GCRS data
MoonEphemerides ==
    {[times |-> generate_timestamps(0, 3 * 60 * MicrosPerSecond, 60).times,
      rows |-> MoonRows, gcrs_cols |-> c, has_latlon |-> WithLatLon] :
        c \in {6, 3, 0}}

MoonPhaseConfigs ==
    [max_illumination : {30}, min_illumination : {None},
     min_distance : {None, Some(20)}, max_distance : {None},
     enforce_when_below_horizon : BOOLEAN,
     moon_visibility : {"full", "partial", "horizon"}]

\* the rows a call asks for: all, two selections of three rows that agree
\* in their first and last row, one row, none
MoonTimeIndices ==
    {None, Some(<<0, 1, 3>>), Some(<<0, 2, 3>>), Some(<<2>>), Some(<<>>)}

EvaluateMoonPhase ==
    \E cfg \in MoonPhaseConfigs, time_indices \in MoonTimeIndices :
        LET r == MoonPhaseEvaluate(cfg, moon_altitude_cache, eph, 0, 0,
                                   time_indices)
        IN  /\ call' = [op |-> "MoonPhase", cfg |-> cfg,
                        target |-> [ra |-> 0, dec |-> 0],
                        time_indices |-> time_indices]
            /\ result' = r.value
            /\ batch' = NoBatch
            /\ out' = NoOut
            /\ moon_altitude_cache' = r.cache
            /\ UNCHANGED <<eph, omm_cache>>

BatchMoonPhase ==
    \E cfg \in MoonPhaseConfigs, time_indices \in MoonTimeIndices :
        LET r == MoonPhaseInConstraintBatch(cfg, moon_altitude_cache, eph,
                     <<0, 90>>, <<0, 0>>, time_indices)
        IN  /\ call' = [op |-> "MoonPhase", cfg |-> cfg,
                        targets |-> [ras |-> <<0, 90>>, decs |-> <<0, 0>>],
                        time_indices |-> time_indices]
            /\ batch' = r.value
            /\ result' = NoResult
            /\ out' = NoOut
            /\ moon_altitude_cache' = r.cache
            /\ UNCHANGED <<eph, omm_cache>>

\* compute_moon_altitudes on the rows asked for
ComputeMoonAltitudes ==
    \E time_indices \in MoonTimeIndices :
        LET data == extract_standard_ephemeris_data(eph, time_indices)
            r == compute_moon_altitudes(moon_altitude_cache, data.times,
                                        data.rows, eph.gcrs_cols)
        IN  /\ call' = [op |-> "compute_moon_altitudes",
                        time_indices |-> time_indices]
            /\ out' = [q |-> "moon_altitudes", value |-> r]
            /\ result' = NoResult
            /\ batch' = NoBatch
            /\ moon_altitude_cache' = r.cache
            /\ UNCHANGED <<eph, omm_cache>>

InitMoon == eph \in MoonEphemerides /\ Fresh

NextMoon ==
    \/ EvaluateMoonPhase
    \/ BatchMoonPhase
    \/ ComputeMoonAltitudes

SpecMoon == InitMoon /\ [][NextMoon]_vars

(***************************************************************************)
(* SpecOMM: any number of calls of fetch_omm_from_celestrak for one NORAD  *)
(* id, with time passing between them.                                     *)
(***************************************************************************)
\* bodies a server sends: nothing, blanks, the text for an unknown id, an
\* error page, JSON of another shape, an object without the OMM fields, and
\* an OMM record
Bodies ==
    {<<>>, <<Space>>, <<NoGpText>>, <<"<html>">>, <<"[", "]">>,
     <<"{", "}">>, <<"[", "{", "}", "]">>,
     <<"[", "{", OmmFields, "}", "]">>,
     <<Space, "[", "{", OmmFields, "}", "]", Space>>}

Responses ==
    {[sent |-> FALSE, status |-> 0, body |-> <<>>]}
    \cup [sent : {TRUE}, status : {200, 404}, body : Bodies]

FetchOmmFromCelestrak ==
    \E response \in Responses, disk_ok \in BOOLEAN :
        LET r == fetch_omm_from_celestrak(omm_cache, response, disk_ok)
        IN  /\ call' = [op |-> "fetch_omm_from_celestrak",
                        response |-> response, disk_ok |-> disk_ok]
            /\ out' = [q |-> "fetch_omm", value |-> r.value,
                       from_cache |-> r.from_cache]
            /\ omm_cache' = r.file
            /\ UNCHANGED <<eph, result, batch, moon_altitude_cache>>

\* a second passes; files older than the TTL are all alike
CacheAges ==
    /\ IsSome(omm_cache)
    /\ Unwrap(omm_cache).age <= OMM_CACHE_TTL
    /\ omm_cache' = Some([Unwrap(omm_cache) EXCEPT !.age = @ + 1])
    /\ UNCHANGED <<eph, call, result, batch, out, moon_altitude_cache>>

InitOMM == eph \in {ScenarioEphemeris} /\ Fresh

NextOMM ==
    \/ FetchOmmFromCelestrak
    \/ CacheAges

SpecOMM == InitOMM /\ [][NextOMM]_vars

(***************************************************************************)
(* What the claims speak of.                                               *)
(***************************************************************************)
ProximityOps == {"SunProximity", "MoonProximity", "BodyProximity"}

\* the evaluators of constraints.rs, which take slices of the arrays
SliceOps == ProximityOps \cup {"EarthLimb"}

\* the instant a stored time denotes: the proximity evaluators store
\* RFC 3339 text, the evaluators of constraints/*.rs store DateTime values
Instant(t) == IF call.op \in SliceOps THEN parse_from_rfc3339(t) ELSE t

\* the rows the call asked to evaluate, in the order asked
RequestedRows ==
    IF call.op \in SliceOps THEN [k \in 1..call.hi |-> eph.rows[k]]
    ELSE IF call.time_indices = None THEN eph.rows
    ELSE [k \in 1..Len(call.time_indices[1]) |->
             eph.rows[call.time_indices[1][k] + 1]]

\* the instants the call asked to evaluate, in the order asked
RequestedInstants ==
    IF call.op \in SliceOps THEN [k \in 1..call.hi |-> eph.times[k]]
    ELSE IF call.time_indices = None THEN eph.times
    ELSE [k \in 1..Len(call.time_indices[1]) |->
             eph.times[call.time_indices[1][k] + 1]]

\* separation of the body of a proximity call from its target at one row
SeparationAt(row) ==
    LET ra == IF call.op = "MoonProximity" THEN row.moon ELSE row.sun
        d == (IF ra >= call.target_ra THEN ra - call.target_ra
              ELSE call.target_ra - ra) % 360
    IN  IF d > 180 THEN 360 - d ELSE d

\* the proximity rule: closer than min_angle, or farther than max_angle
\* when that is set
ProximityViolated(cfg, angle) ==
    \/ angle < cfg.min_angle
    \/ cfg.max_angle # None /\ angle > cfg.max_angle[1]

\* the severities of the proximity rule, as fractions in lowest terms
ProximitySeverity(cfg, angle) ==
    IF angle < cfg.min_angle
    THEN Rat(cfg.min_angle - angle, cfg.min_angle)
    ELSE Rat(angle - cfg.max_angle[1], cfg.max_angle[1])

\* the eclipse rule: inside the umbra, or inside the penumbra when that
\* counts
EclipseViolated(cfg, shadow) ==
    /\ shadow # None
    /\ \/ shadow[1][1] < shadow[1][2]
       \/ ~cfg.umbra_only /\ shadow[1][1] < shadow[1][3]

\* whether the rule of the evaluator called is broken at a row
\* the Earth limb rule: the target is closer to the centre of the Earth
\* than the Earth's angular radius plus min_angle, or farther from it than
\* max_angle when that is set
EarthLimbViolated(cfg, target, pos) ==
    LET angle == EarthLimbAngle(target.ra, target.dec, pos)
    IN  \/ angle < EarthLimbThreshold(cfg, pos)
        \/ cfg.max_angle # None /\ angle > cfg.max_angle[1]

SampleViolated(row) ==
    IF call.op \in ProximityOps
    THEN ProximityViolated(call.cfg, SeparationAt(row))
    ELSE IF call.op = "EarthLimb"
    THEN EarthLimbViolated(call.cfg, call.target, row.pos)
    ELSE EclipseViolated(call.cfg, row.shadow)

\* the positions (1-based) of the requested samples a window covers
Covered(w) ==
    {k \in 1..Len(RequestedInstants) :
        /\ Instant(w.start_time) <= RequestedInstants[k]
        /\ RequestedInstants[k] <= Instant(w.end_time)}

SeqRange(s) == {s[k] : k \in 1..Len(s)}

\* C1: the windows of a result are in time order and do not overlap (each
\* ends before the next starts), each starts no later than it ends, and
\* every start and end is one of the timestamps evaluated.
C1_WindowsOrderedOnSamples ==
    result.tag = "ok" =>
        LET w == result.violations
        IN  /\ \A k \in 1..Len(w) :
                 /\ Instant(w[k].start_time) <= Instant(w[k].end_time)
                 /\ w[k].start_time \in SeqRange(result.times)
                 /\ w[k].end_time \in SeqRange(result.times)
                 /\ Instant(w[k].start_time) \in SeqRange(RequestedInstants)
                 /\ Instant(w[k].end_time) \in SeqRange(RequestedInstants)
            /\ \A k \in 1..(Len(w) - 1) :
                 Instant(w[k].end_time) < Instant(w[k + 1].start_time)

\* two windows of an eclipse evaluation of the whole ephemeris, the second
\* lasting to its end
C1_Witness ==
    /\ call.op = "Eclipse"
    /\ call.time_indices = None
    /\ result.tag = "ok"
    /\ Len(result.violations) = 2
    /\ result.violations[1].end_time < result.violations[2].start_time
    /\ result.violations[2].end_time = eph.times[N]

\* the largest of a nonempty set of fractions
RatMaxOf(S) == CHOOSE m \in S : \A x \in S : RatLeq(x, m)

ScenarioWindows ==
    <<[start |-> 0, end |-> 60 * MicrosPerSecond],
      [start |-> 5 * 60 * MicrosPerSecond, end |-> 7 * 60 * MicrosPerSecond]>>

\* C2: a sample of a proximity evaluation lies in a window exactly when its
\* separation is below min_angle or above a configured max_angle; a window's
\* severity is the largest of (min - angle)/min, (angle - max)/max over its
\* samples; and the ten-sample scenario with min_angle 20 gives the windows
\* {0,1} and {5,6,7}, each of severity 1/2, and all_satisfied false.
C2_ProximityRule ==
    (result.tag = "ok" /\ call.op \in ProximityOps) =>
        LET w == result.violations
        IN  /\ \A k \in 1..Len(RequestedRows) :
                 (\E j \in 1..Len(w) : k \in Covered(w[j]))
                     <=> ProximityViolated(call.cfg, SeparationAt(RequestedRows[k]))
            /\ \A j \in 1..Len(w) :
                 /\ Covered(w[j]) # {}
                 /\ w[j].max_severity =
                      RatMaxOf({ProximitySeverity(call.cfg,
                                    SeparationAt(RequestedRows[k])) :
                                k \in Covered(w[j])})
            /\ (/\ eph = ScenarioEphemeris /\ call.hi = 10
                /\ call.op # "MoonProximity" /\ call.cfg.max_angle = None)
                 => /\ Len(w) = 2
                    /\ \A j \in 1..2 :
                         /\ Instant(w[j].start_time) = ScenarioWindows[j].start
                         /\ Instant(w[j].end_time) = ScenarioWindows[j].end
                         /\ w[j].max_severity = <<1, 2>>
                    /\ ~result.all_satisfied

\* the scenario, evaluated whole by the Sun evaluator
C2_Witness ==
    /\ eph = ScenarioEphemeris
    /\ call.op = "SunProximity"
    /\ call.hi = 10
    /\ call.cfg.max_angle = None
    /\ result.tag = "ok"
    /\ Len(result.violations) = 2

\* the rule of an evaluator of constraints/*.rs at one row, for a target
RuleViolated(op, cfg, row, target) ==
    CASE op = "Eclipse" -> EclipseViolated(cfg, row.shadow)
      [] op = "OrbitPole" ->
            LET angle == PoleAngle(row, target.ra, target.dec)
            IN  \/ angle < cfg.min_angle_deg
                \/ cfg.max_angle_deg # None /\ angle > cfg.max_angle_deg[1]
      [] op = "SAA" -> point_in_polygon(cfg, row.lon, row.lat)
      [] op = "AltAz" ->
            LET alt_az == calculate_alt_az(
                              radec_to_unit_vector(target.ra, target.dec), row.pos)
            IN  AltAzViolated(cfg, alt_az[1], alt_az[2])
      [] op = "Daytime" ->
            LET is_daytime ==
                    ~RatLeq(calculate_sun_altitude(row.sun, row.pos),
                            <<twilight_angle(cfg), 1>>)
            IN  IF cfg.allow_daytime THEN ~is_daytime ELSE is_daytime

\* target j (1-based) of a batch call
BatchTarget(j) == [ra |-> call.targets.ras[j], dec |-> call.targets.decs[j]]

\* C3: entry [j, i] of the matrix in_constraint_batch returns is true
\* exactly when the constraint is satisfied (not violated) at sample i for
\* target j, for every evaluator alike.
C3_BatchTrueIffSatisfied ==
    batch.tag = "ok" =>
        \A j \in 1..Len(batch.value) : \A i \in 1..Len(batch.value[j]) :
            batch.value[j][i] =
                ~RuleViolated(call.op, call.cfg, RequestedRows[i], BatchTarget(j))

\* the evaluators whose in_constraint_batch stores the violated flag
StoresViolated(op) == op \in {"Eclipse", "AltAz", "Daytime"}

\* C4: with time_indices I, position k of the output is computed from row
\* I[k] of every array of the ephemeris: the result's timestamps are those
\* at I, a position lies in a window of evaluate exactly when the rule is
\* broken at row I[k], and column k of the batch matrix is decided by row
\* I[k]. (Ephemerides with velocities; each evaluator's own polarity.)
C4_TimeIndicesHonoured ==
    eph.gcrs_cols = 6 =>
        /\ result.tag = "ok" =>
             /\ result.times = RequestedInstants
             /\ \A k \in 1..Len(RequestedRows) :
                  (\E j \in 1..Len(result.violations) :
                        k \in Covered(result.violations[j]))
                    <=> RuleViolated(call.op, call.cfg, RequestedRows[k],
                                     call.target)
        /\ batch.tag = "ok" =>
             \A j \in 1..Len(batch.value) :
                /\ Len(batch.value[j]) = Len(RequestedRows)
                /\ \A k \in 1..Len(RequestedRows) :
                     batch.value[j][k] =
                        (RuleViolated(call.op, call.cfg, RequestedRows[k],
                                      BatchTarget(j)) <=> StoresViolated(call.op))

\* C7: all_satisfied is true exactly when the window list is empty, which
\* is exactly when no evaluated sample breaks the rule; a zero-length
\* sequence gives an empty list and all_satisfied true, and no evaluation
\* indexes out of range.
C7_AllSatisfiedIffNoWindows ==
    /\ result.tag # "panic"
    /\ result.tag = "ok" =>
         /\ result.all_satisfied <=> result.violations = <<>>
         /\ result.violations = <<>>
              <=> \A k \in 1..Len(RequestedRows) : ~SampleViolated(RequestedRows[k])
         /\ Len(RequestedRows) = 0 =>
              result.violations = <<>> /\ result.all_satisfied

\* an evaluation of zero samples of an ephemeris whose first sample breaks
\* the rule
C7_Witness ==
    /\ result.tag = "ok"
    /\ Len(RequestedRows) = 0
    /\ result.times = <<>>
    /\ result.all_satisfied
    /\ SampleViolated(eph.rows[1])

EvaluatedInstant(text) ==
    RequestedInstants[CHOOSE k \in 1..Len(result.times) : result.times[k] = text]

\* whether some window of the result holds the instant t, bounds included
InSomeWindow(t) ==
    \E k \in 1..Len(result.violations) :
        /\ EvaluatedInstant(result.violations[k].start_time) <= t
        /\ t <= EvaluatedInstant(result.violations[k].end_time)

\* C5: constraint_array has one entry per evaluated timestamp, true at i
\* exactly when no window has start <= t_i <= end (both bounds inclusive),
\* and is empty when no timestamp was evaluated.
C5_ConstraintArray ==
    out.q = "constraint_array" =>
        /\ Len(out.value) = Len(result.times)
        /\ Len(result.times) = Len(RequestedInstants)
        /\ \A i \in 1..Len(result.times) :
             out.value[i] = ~InSomeWindow(RequestedInstants[i])
        /\ result.times = <<>> => out.value = <<>>

\* a mask with a timestamp inside a window and one outside every window
C5_Witness ==
    /\ out.q = "constraint_array"
    /\ \E i \in 1..Len(out.value) : out.value[i]
    /\ \E i \in 1..Len(out.value) : ~out.value[i]

\* C6: asked about an instant that was evaluated, in_constraint returns the
\* entry of the dense mask at that instant's index; asked about any other
\* instant it returns an error.
C6_InConstraintExact ==
    out.q = "in_constraint" =>
        IF out.time.us \in SeqRange(RequestedInstants)
        THEN \E i \in 1..Len(RequestedInstants) :
                /\ RequestedInstants[i] = out.time.us
                /\ out.value = <<"Ok", constraint_array(result)[i]>>
        ELSE out.value[1] = "Err"

RECURSIVE SecondsOfWindows(_, _)
SecondsOfWindows(w, k) ==
    IF k > Len(w) THEN 0
    ELSE (EvaluatedInstant(w[k].end_time) - EvaluatedInstant(w[k].start_time))
             \div MicrosPerSecond
         + SecondsOfWindows(w, k + 1)

\* C8: total_violation_duration is the sum over the windows of end - start
\* in seconds; when every window holds a single sample the total is 0.
C8_TotalDuration ==
    out.q = "total_violation_duration" =>
        /\ out.value = <<"Ok", SecondsOfWindows(result.violations, 1)>>
        /\ (\A k \in 1..Len(result.violations) :
                result.violations[k].start_time = result.violations[k].end_time)
              => out.value = <<"Ok", 0>>

\* two single-sample windows: the total is 0 although the constraint was
\* violated
C8_Witness ==
    /\ out.q = "total_violation_duration"
    /\ Len(result.violations) = 2
    /\ \A k \in 1..2 :
         result.violations[k].start_time = result.violations[k].end_time
    /\ out.value = <<"Ok", 0>>
    /\ ~result.all_satisfied

\* what a query returns on a result
QueryValue(r, o) ==
    CASE o.q = "total_violation_duration" -> total_violation_duration(r)
      [] o.q = "constraint_array" -> constraint_array(r)
      [] o.q = "in_constraint" -> in_constraint(r, o.time)

\* C9: a derived query leaves the result (and the ephemeris) as it was, and
\* what it returns is determined by the result and its argument alone, so
\* that queries repeated in any order return the same values.
C9_QueriesReadOnly ==
    [][(out'.q # "none") =>
          /\ result' = result
          /\ eph' = eph
          /\ call' = call
          /\ batch' = batch
          /\ out'.value = QueryValue(result, out')]_vars

\* a query answered on a result that holds a window
C9_Witness ==
    /\ out.q = "in_constraint"
    /\ result.violations # <<>>
    /\ out.value = <<"Ok", FALSE>>

\* the ephemeris lacks the latitude or the longitude
LatLonMissing == ~(eph.has_latlon.lat /\ eph.has_latlon.lon)

\* C11: when the ephemeris supplies no latitude or no longitude, evaluate
\* and in_constraint_batch of the SAA evaluator both return an error: no
\* ConstraintResult and no matrix is produced.
C11_SAAMissingLatLonFails ==
    (call.op = "SAA" /\ LatLonMissing) =>
        /\ result # NoResult => result.tag = "err"
        /\ batch # NoBatch => batch.tag = "err"

\* evaluate failed on an ephemeris that has the latitude but no longitude
C11_Witness ==
    /\ call.op = "SAA"
    /\ eph.has_latlon.lat /\ ~eph.has_latlon.lon
    /\ result = Failed("Longitude data not available")

\* C12: an SAA configuration whose polygon has fewer than three vertices
\* (the empty polygon included) is rejected: no evaluator built from it
\* evaluates samples, so no call on it returns a result or a matrix.
C12_MalformedPolygonRejected ==
    (call.op = "SAA" /\ Len(call.cfg.polygon) < 3) =>
        /\ result.tag # "ok"
        /\ batch.tag # "ok"

\* the polygon with its vertex list shifted cyclically by k
Rotated(polygon, k) ==
    [i \in 1..Len(polygon) |-> polygon[((i - 1 + k) % Len(polygon)) + 1]]

\* the polygon with its vertices in the opposite order
Reversed(polygon) ==
    [i \in 1..Len(polygon) |-> polygon[Len(polygon) + 1 - i]]

\* the point lies on an edge of the polygon
OnBoundary(polygon, lon, lat) ==
    \E i \in 1..Len(polygon) :
        LET a == polygon[i]
            b == polygon[(i % Len(polygon)) + 1]
        IN  /\ (b[1] - a[1]) * (lat - a[2]) = (lon - a[1]) * (b[2] - a[2])
            /\ Min2(a[1], b[1]) <= lon /\ lon <= Max2(a[1], b[1])
            /\ Min2(a[2], b[2]) <= lat /\ lat <= Max2(a[2], b[2])

\* the sample of evaluate_with_latlon was found inside the polygon
FoundInside == result.violations # <<>>

\* C13: for the square (0,0),(10,0),(10,10),(0,10) the point (5,5) is inside
\* (violated) and (20,20) is outside (satisfied); and for a simple polygon
\* and a point off its boundary the answer is the same for every cyclic
\* shift of the vertex list and for the reversed vertex order.
C13_PolygonContainment ==
    call.op = "evaluate_with_latlon" =>
        /\ result.tag = "ok"
        /\ result.all_satisfied = ~FoundInside
        /\ (call.polygon = Square /\ call.lon = 5 /\ call.lat = 5) => FoundInside
        /\ (call.polygon = Square /\ call.lon = 20 /\ call.lat = 20) => ~FoundInside
        /\ ~OnBoundary(call.polygon, call.lon, call.lat) =>
              \A k \in 0..(Len(call.polygon) - 1) :
                  /\ point_in_polygon([polygon |-> Rotated(call.polygon, k)],
                                      call.lon, call.lat) = FoundInside
                  /\ point_in_polygon(
                        [polygon |-> Reversed(Rotated(call.polygon, k))],
                        call.lon, call.lat) = FoundInside

\* a point in the upper arm of the L-shaped polygon was found inside
C13_Witness ==
    /\ call.op = "evaluate_with_latlon"
    /\ Len(call.polygon) = 6 /\ call.lon = 2 /\ call.lat = 7
    /\ FoundInside

\* evaluate of the call's evaluator on the call's ephemeris and indices for
\* another target
EvaluateForTarget(t) ==
    IF call.op = "Eclipse"
    THEN EclipseEvaluate(call.cfg, eph, t.ra, t.dec, call.time_indices)
    ELSE SAAEvaluate(SAAToEvaluator(call.cfg), eph, t.ra, t.dec,
                     call.time_indices)

\* C14: the eclipse and SAA constraints ignore the target: every row of the
\* matrix of in_constraint_batch is the same (entry [j, i] depends on the
\* time i only), and evaluate returns the same windows for any two targets
\* on the same ephemeris.
C14_TargetIndependent ==
    call.op \in {"Eclipse", "SAA"} =>
        /\ batch.tag = "ok" =>
              \A j1, j2 \in 1..Len(batch.value) :
                  batch.value[j1] = batch.value[j2]
        /\ result # NoResult =>
              \A t \in Targets : EvaluateForTarget(t) = result

\* a batch for two targets whose rows hold both a true and a false entry
C14_Witness ==
    /\ call.op \in {"Eclipse", "SAA"}
    /\ batch.tag = "ok"
    /\ Len(batch.value) = 2
    /\ \E i1, i2 \in 1..Len(batch.value[1]) :
          batch.value[1][i1] /\ ~batch.value[1][i2]

\* the optional fields of a configuration type
OptionalNames(type) ==
    {FieldsOf(type)[k].name : k \in
        {i \in 1..Len(FieldsOf(type)) : FieldsOf(type)[i].kind = "optional"}}

EvaluatorName(op, cfg) ==
    CASE op = "SunProximity" -> SunProximityName(cfg)
      [] op = "MoonProximity" -> MoonProximityName(cfg)
      [] op = "BodyProximity" -> BodyProximityName(cfg)
      [] op = "EarthLimb" -> EarthLimbName(cfg)
      [] op = "Eclipse" -> EclipseName(cfg)

\* the angle thresholds an evaluator enforces: its minimum, and its maximum
\* when that is set
ActiveThresholds(cfg) ==
    {cfg.min_angle} \cup (IF cfg.max_angle = None THEN {} ELSE {cfg.max_angle[1]})

\* C16: a result's constraint_name is the name() of the evaluator that made
\* it, and the name holds every active threshold of the evaluator: the
\* minimum, and the maximum as well when the evaluator was built with one.
C16_NameHasThresholds ==
    result.tag = "ok" =>
        /\ result.constraint_name = EvaluatorName(call.op, call.cfg)
        /\ call.op \in SliceOps =>
              \A v \in ActiveThresholds(call.cfg) :
                  \E k \in 2..Len(result.constraint_name) :
                      result.constraint_name[k] = v

\* a < b for airmass values: every finite value is below the infinite one
AirmassLess(a, b) == ~a.inf /\ (b.inf \/ a.milli < b.milli)

\* C17: airmass(90 degrees) = 1.0; the airmass is infinite for every
\* altitude at or below the horizon; and of two altitudes in (0, 90] the
\* higher has the strictly smaller airmass, across the crossover near 10
\* degrees as well.
C17_AirmassMonotone ==
    call.op = "altitude_to_airmass" =>
        /\ call.altitude = 9000 => out.value = Finite(1000)
        /\ call.altitude <= 0 => out.value = Infinite
        /\ (call.altitude > 0 /\ call.altitude <= 9000) =>
              \A lower \in Altitudes :
                  (lower > 0 /\ lower < call.altitude) =>
                      AirmassLess(out.value, altitude_to_airmass(lower))

\* whether the rule is broken at position k (1-based) of the requested
\* samples
ViolatedAt(k) == SampleViolated(RequestedRows[k])

\* the positions where a maximal run of violated samples starts
RunStarts ==
    {k \in 1..Len(RequestedRows) :
        ViolatedAt(k) /\ (k = 1 \/ ~ViolatedAt(k - 1))}

\* the position where the run that starts at s ends
RunEnd(s) ==
    CHOOSE e \in s..Len(RequestedRows) :
        /\ \A k \in s..e : ViolatedAt(k)
        /\ e = Len(RequestedRows) \/ ~ViolatedAt(e + 1)

\* the tracker scenario evaluated whole
TrackerScenario ==
    /\ eph = TrackerEphemeris
    /\ \/ call.op \in {"SunProximity", "BodyProximity"} /\ call.hi = 10
       \/ call.op = "Eclipse" /\ call.time_indices = None

\* C18: the windows of a result are exactly the maximal runs of consecutive
\* violated samples, in order, each from the timestamp of its first sample
\* to the timestamp of its last; the predicate sequence F,F,T,T,T,F,T,F,F,T
\* over t0..t9 gives exactly the windows [t2,t4], [t6,t6] and [t9,t9].
C18_WindowsAreMaximalRuns ==
    result.tag = "ok" =>
        LET w == result.violations
            starts == Ascending(RunStarts)
        IN  /\ Len(w) = Len(starts)
            /\ \A j \in 1..Len(w) :
                 /\ Instant(w[j].start_time) = RequestedInstants[starts[j]]
                 /\ Instant(w[j].end_time) = RequestedInstants[RunEnd(starts[j])]
            /\ TrackerScenario =>
                 /\ Len(w) = 3
                 /\ Instant(w[1].start_time) = 2 * MicrosPerSecond
                 /\ Instant(w[1].end_time) = 4 * MicrosPerSecond
                 /\ Instant(w[2].start_time) = 6 * MicrosPerSecond
                 /\ Instant(w[2].end_time) = 6 * MicrosPerSecond
                 /\ Instant(w[3].start_time) = 9 * MicrosPerSecond
                 /\ Instant(w[3].end_time) = 9 * MicrosPerSecond

\* the tracker scenario evaluated whole by the Sun evaluator
C18_Witness ==
    /\ TrackerScenario
    /\ call.op = "SunProximity"
    /\ result.tag = "ok"
    /\ Len(result.violations) = 3

\* the severity the evaluator called assigns to one violated sample
SampleSeverity(row) ==
    IF call.op \in ProximityOps
    THEN ProximitySeverity(call.cfg, SeparationAt(row))
    ELSE IF call.op = "EarthLimb"
    THEN EarthLimbSeverity(call.cfg,
             EarthLimbAngle(call.target.ra, call.target.dec, row.pos),
             EarthLimbThreshold(call.cfg, row.pos))
    ELSE shadow_status(call.cfg, row.shadow)[2]

\* C19: a window's max_severity is the largest severity among exactly the
\* samples of its own run, from its start index to its end index; the
\* severities of earlier windows and of samples outside it do not enter.
C19_SeverityWithinWindow ==
    result.tag = "ok" =>
        LET w == result.violations
            starts == Ascending(RunStarts)
        IN  \A j \in 1..Min2(Len(w), Len(starts)) :
                w[j].max_severity =
                    RatMaxOf({SampleSeverity(RequestedRows[k]) :
                              k \in starts[j]..RunEnd(starts[j])})

\* a window whose largest severity is not that of its first sample, and a
\* later window of smaller severity than an earlier one
C19_Witness ==
    /\ result.tag = "ok"
    /\ call.op = "SunProximity"
    /\ \E j \in 1..Len(result.violations) :
          SampleSeverity(RequestedRows[Ascending(RunStarts)[j]]) #
              result.violations[j].max_severity
    /\ \E j \in 2..Len(result.violations) :
          ~RatLeq(result.violations[j - 1].max_severity,
                  result.violations[j].max_severity)

\* C20: when the last sample is violated the open window is closed with
\* end = timestamps[N-1] and is the last window; a violated sequence of a
\* single sample gives exactly one window with start = end; and a run that
\* begins at index 0 gives a window with start = timestamps[0].
C20_OpenWindowClosedAtEnd ==
    (result.tag = "ok" /\ Len(RequestedRows) > 0) =>
        LET w == result.violations
            n == Len(RequestedRows)
        IN  /\ ViolatedAt(n) =>
                 /\ Len(w) > 0
                 /\ Instant(w[Len(w)].end_time) = RequestedInstants[n]
            /\ (n = 1 /\ ViolatedAt(1)) =>
                 /\ Len(w) = 1
                 /\ w[1].start_time = w[1].end_time
            /\ ViolatedAt(1) =>
                 /\ Len(w) > 0
                 /\ Instant(w[1].start_time) = RequestedInstants[1]

\* a sequence of more than one sample, violated from its first sample to
\* its last, evaluated by the Sun evaluator: one window over all of it
C20_Witness ==
    /\ result.tag = "ok"
    /\ call.op = "SunProximity"
    /\ Len(RequestedRows) > 1
    /\ \A k \in 1..Len(RequestedRows) : ViolatedAt(k)
    /\ Len(result.violations) = 1
    /\ Instant(result.violations[1].start_time) = RequestedInstants[1]
    /\ Instant(result.violations[1].end_time) =
           RequestedInstants[Len(RequestedRows)]

\* the descriptions of a proximity window that report an angle (their
\* second component)
AngleFormats ==
    {"Target within (angle) of Sun (min allowed)",
     "Target (angle) from Sun (max allowed)",
     "Target within (angle) of Moon (min allowed)",
     "Target (angle) from Moon (max allowed)",
     "Target within (angle) of body (min, max)",
     "Target within (angle) of body (min allowed)"}

\* a window closed inside the loop: a sample that keeps the rule follows it
MidSequence(w) ==
    Instant(w.end_time) < RequestedInstants[Len(RequestedInstants)]

\* C21: the angle reported in the description of a proximity window closed
\* in mid-sequence is an angle that breaks the rule (an angle of the window,
\* not of the sample that follows it).
C21_MidWindowAngleViolates ==
    (result.tag = "ok" /\ call.op \in ProximityOps) =>
        \A j \in 1..Len(result.violations) :
            LET w == result.violations[j]
            IN  (MidSequence(w) /\ w.description[1] \in AngleFormats)
                    => ProximityViolated(call.cfg, w.description[2])

\* the observer of a shadow_status call is on the day side: its position
\* has no component against the direction of the Sun
DaySide == dot_product(call.obs_pos, normalize_vector(call.sun_pos)) >= 0

\* the length of the umbra for the Sun of the call
UmbraLength ==
    Scaled(EARTH_RADIUS_KM, vector_magnitude(call.sun_pos),
           SUN_RADIUS_KM - EARTH_RADIUS_KM)

\* the observer's distance behind the Earth along the shadow axis
AxialDistance ==
    0 - dot_product(call.obs_pos, normalize_vector(call.sun_pos))

\* C22: an observer on the day side is not violated and has severity 0; on
\* the night side, nearer than the length of the umbra, the penumbra radius
\* is strictly greater than the umbra radius; and an observer at the
\* midpoint of the two radii is outside the umbra and inside the penumbra,
\* violated when umbra_only is false and not violated when it is true.
C22_ShadowClassification ==
    call.op = "shadow_status" =>
        /\ DaySide => out.status = <<FALSE, RatZero>>
        /\ (~DaySide /\ AxialDistance < UmbraLength) =>
              /\ out.geometry # None
              /\ out.geometry[1][3] > out.geometry[1][2]
        /\ (~DaySide /\ call.midpoint) =>
              /\ out.geometry # None
              /\ out.geometry[1][1] >= out.geometry[1][2]
              /\ out.geometry[1][1] < out.geometry[1][3]
              /\ out.status[1] = ~call.cfg.umbra_only

\* the observer of the test of eclipse.rs: 1.1 Earth radii behind the
\* Earth, at the midpoint of the radii, the penumbra counting
C22_Witness ==
    /\ call.op = "shadow_status"
    /\ call.midpoint
    /\ ~call.cfg.umbra_only
    /\ call.obs_pos = <<0 - 23760, 21601, 0>>
    /\ call.sun_pos = <<AU_TO_KM, 0, 0>>
    /\ out.geometry = Some(<<21601, 21492, 21710>>)
    /\ out.status[1]

\* the altitude and azimuth calculate_alt_az gives for every sample
SampleAltitude == calculate_alt_az(<<1, 0, 0>>, <<7, 0, 0>>)[1]
SampleAzimuth == calculate_alt_az(<<1, 0, 0>>, <<7, 0, 0>>)[2]

AltitudeWithinBounds(cfg) ==
    /\ SampleAltitude >= cfg.min_altitude
    /\ cfg.max_altitude # None => SampleAltitude <= cfg.max_altitude[1]

\* the azimuth range with wrap-around
AzimuthAccepted(min_az, max_az, a) ==
    \/ min_az <= max_az /\ min_az <= a /\ a <= max_az
    \/ min_az > max_az /\ (a >= min_az \/ a <= max_az)

\* the samples a call asked for
AskedCount ==
    IF call.time_indices = None THEN Len(eph.times)
    ELSE Len(call.time_indices[1])

\* C23: with both azimuth bounds set and the altitude within bounds, a
\* sample is accepted exactly when its azimuth lies in [min_az, max_az], or,
\* for min_az > max_az, in the arc from min_az through 0 to max_az; a sample
\* whose altitude is out of bounds is violated whatever the azimuth bounds
\* are; evaluate and in_constraint_batch decide alike.
C23_AzimuthWrapAround ==
    (call.op = "AltAz" /\ call.cfg \in AzimuthConfigs) =>
        LET cfg == call.cfg
            accepted ==
                IF ~AltitudeWithinBounds(cfg) THEN FALSE
                ELSE IF cfg.min_azimuth # None /\ cfg.max_azimuth # None
                THEN AzimuthAccepted(cfg.min_azimuth[1], cfg.max_azimuth[1],
                                     SampleAzimuth)
                ELSE AltAzSample(cfg, SampleAltitude, SampleAzimuth)[1] = FALSE
        IN  /\ result.tag = "ok" =>
                 /\ Len(result.times) = AskedCount
                 /\ AskedCount > 0 => (result.all_satisfied <=> accepted)
                 /\ (AskedCount > 0 /\ ~accepted) =>
                       /\ Len(result.violations) = 1
                       /\ result.violations[1].start_time = result.times[1]
                       /\ result.violations[1].end_time
                            = result.times[AskedCount]
            /\ batch.tag = "ok" =>
                 \A j \in 1..Len(batch.value) :
                     /\ Len(batch.value[j]) = AskedCount
                     /\ \A i \in 1..AskedCount :
                            batch.value[j][i] = ~accepted

\* an azimuth range that wraps around (170 through 0 to 10) and holds the
\* azimuth of the samples, evaluated on two rows
C23_Witness ==
    /\ call.op = "AltAz"
    /\ call.cfg = [min_altitude |-> 30, max_altitude |-> None,
                   min_azimuth |-> Some(170), max_azimuth |-> Some(10)]
    /\ call.time_indices = Some(<<2, 7>>)
    /\ result.tag = "ok"
    /\ result.all_satisfied

\* the Moon is above the horizon by the visibility setting of a
\* configuration, at an altitude in tenths of a degree
MoonVisible(cfg, altitude) ==
    IF cfg.moon_visibility = "partial" THEN altitude >= 0 - 5
    ELSE altitude >= 0

\* the illumination and distance tests of a Moon phase configuration at a
\* row, for a target at right ascension ra
MoonRuleViolated(cfg, row, ra) ==
    LET d == (IF row.moon >= ra THEN row.moon - ra ELSE ra - row.moon) % 360
        distance == IF d > 180 THEN 360 - d ELSE d
    IN  \/ row.illum > cfg.max_illumination
        \/ cfg.min_illumination # None /\ row.illum < cfg.min_illumination[1]
        \/ cfg.min_distance # None /\ distance < cfg.min_distance[1]
        \/ cfg.max_distance # None /\ distance > cfg.max_distance[1]

\* position k of the samples asked for lies in a window of the result
InWindow(k) ==
    \E j \in 1..Len(result.violations) :
        /\ result.violations[j].start_time <= RequestedInstants[k]
        /\ RequestedInstants[k] <= result.violations[j].end_time

\* C24: where the Moon is not visible and enforce_when_below_horizon is
\* false, a sample is not violated whatever the illumination and the
\* distance are, in evaluate and in in_constraint_batch; where
\* enforce_when_below_horizon is true the sample is judged by illumination
\* and distance alone.
C24_VisibilityGate ==
    call.op = "MoonPhase" =>
        \A k \in 1..Len(RequestedRows) :
            LET row == RequestedRows[k]
                hidden == ~MoonVisible(call.cfg, row.moon_alt)
            IN  /\ (hidden /\ ~call.cfg.enforce_when_below_horizon) =>
                     /\ result.tag = "ok" => ~InWindow(k)
                     /\ batch.tag = "ok" =>
                          \A j \in 1..Len(batch.value) : ~batch.value[j][k]
                /\ call.cfg.enforce_when_below_horizon =>
                     /\ result.tag = "ok" =>
                          (InWindow(k) <=>
                              MoonRuleViolated(call.cfg, row, call.target.ra))
                     /\ batch.tag = "ok" =>
                          \A j \in 1..Len(batch.value) :
                              batch.value[j][k] <=>
                                  MoonRuleViolated(call.cfg, row,
                                                   call.targets.ras[j])


C26_EvaluationMutatesNothing ==
    [][call'.op = "MoonPhase" =>
          /\ eph' = eph
          /\ moon_altitude_cache' = moon_altitude_cache]_vars


\* C27: every call of compute_moon_altitudes returns the altitudes that a
\* fresh computation on the times, Moon positions and observer states of
\* that call would return, whatever calls came before it.
C27_AltitudesOfOwnInputs ==
    (out.q = "moon_altitudes" /\ out.value.tag = "ok") =>
        out.value.altitudes = FreshMoonAltitudes(RequestedRows)


\* C28: for an evaluation over strictly increasing timestamps,
\* constraint_array has one entry per sample and its entry i is false
\* exactly when the evaluator's rule is broken at sample i.
C28_MaskIsNegatedFlags ==
    out.q = "constraint_array" =>
        /\ Len(out.value) = Len(RequestedRows)
        /\ \A i \in 1..Len(out.value) : out.value[i] = ~ViolatedAt(i)

\* a mask of three samples of which the middle one alone keeps the rule, so
\* that two windows lie one sample apart
C28_Witness ==
    /\ out.q = "constraint_array"
    /\ Len(out.value) = 3
    /\ ~out.value[1] /\ out.value[2] /\ ~out.value[3]
    /\ Len(result.violations) = 2


\* the number of timestamps from begin to end, step_size seconds apart
ExpectedCount ==
    ((call.end - call.begin) \div MicrosPerSecond) \div call.step_size + 1

\* C29: generate_timestamps returns; when begin <= end, step_size > 0 and
\* the expected count is at most MAX_TIMESTAMPS the result is a strictly
\* increasing sequence that starts at begin, advances by exactly step_size
\* seconds, ends at the last such instant t with t <= end < t + step_size,
\* and has floor((end - begin) / step_size) + 1 elements; otherwise the
\* result is an error that holds no timestamps.
C29_GenerateTimestamps ==
    out.q = "timestamps" =>
        LET times == out.value.times
            n == Len(times)
        IN  /\ ~out.value.panic
            /\ IF /\ call.begin <= call.end
                  /\ call.step_size > 0
                  /\ ExpectedCount <= MAX_TIMESTAMPS
               THEN /\ out.value.ok
                    /\ n = ExpectedCount
                    /\ times[1] = call.begin
                    /\ \A k \in 1..(n - 1) :
                         times[k + 1] - times[k] =
                             call.step_size * MicrosPerSecond
                    /\ times[n] <= call.end
                    /\ (call.end - times[n]) \div MicrosPerSecond
                           < call.step_size
               ELSE ~out.value.ok /\ times = <<>>


\* C30: the OMM cache holds only content that parses as OMM data, and a
\* call that is answered from the cache within the TTL does not fail.
C30_CacheHoldsParsableContent ==
    /\ IsSome(omm_cache) =>
           parse_omm_json(Unwrap(omm_cache).content)[1] = "Ok"
    /\ (out.q = "fetch_omm" /\ out.from_cache) => out.value[1] = "Ok"

=============================================================================
